---- MODULE Spec2Model ----
(***************************************************************************)
(* State-machine model of the two I2C drivers of act_props: DPS310         *)
(* (barometric pressure / temperature sensor) and ADS1x1x (ADC).           *)
(*                                                                         *)
(* A sketch owns one driver object and calls its public methods from one   *)
(* thread.  Every public method is one action; the bus and the clock are   *)
(* the environment: each bus transaction of a method may fail or succeed,  *)
(* and a successful read returns a byte (word) drawn from a small sample   *)
(* set.  A local variable that the code reads without having written it    *)
(* (the destination of a failed register read) holds an arbitrary sample.  *)
(* The two blocking poll loops of DPS310::begin() are the only places      *)
(* where a method can stay forever, so begin() is cut at these loops: one  *)
(* action per loop iteration, no other method runs in between.             *)
(*                                                                         *)
(* float values are kept as the terms that the code evaluates (a ratio     *)
(* raw/scale, and the coefficients with the ratios they are applied to).   *)
(***************************************************************************)
EXTENDS Integers, Sequences, FiniteSets, TLC

VARIABLES driver, dps, ads, wire, call

vars == <<driver, dps, ads, wire, call>>

\* ------------------------------------------------------------ bounds
\* Iterations of a blocking poll loop that are counted; the count stays at
\* MaxPolls when the loop goes on.
MaxPolls == 2

\* ------------------------------------------------------------ enums
Result == [SUCCESS |-> "SUCCESS", FAILED_NOT_RESPONDING |-> "FAILED_NOT_RESPONDING",
           FAILED_BUSY |-> "FAILED_BUSY", FAILED_UNKNOWN |-> "FAILED_UNKNOWN"]

ResultSet == {Result.SUCCESS, Result.FAILED_NOT_RESPONDING, Result.FAILED_BUSY,
              Result.FAILED_UNKNOWN}

DPS310_State == {"WAIT_SETUP", "WAIT_BEGIN", "IDLE", "TEMP_BUSY", "TEMP_COMPLETE",
                 "TEMP_ERROR", "PRES_BUSY", "PRES_COMPLETE", "PRES_ERROR", "AVAILABLE"}

ADS1x1x_State == {"WAIT_SETUP", "WAIT_BEGIN", "IDLE", "BUSY", "COMPLETE", "ERROR",
                  "AVAILABLE"}

DPS310_Address == [PRIMARY |-> 119, SECONDARY |-> 118]

ADS1x1x_Address == [PRIMARY |-> 72, SECONDARY |-> 73, TERTIARY |-> 74, QUATERNARY |-> 75]

Precision == [LOW_1X |-> 0, LOW_2X |-> 1, LOW_4X |-> 2, LOW_8X |-> 3,
              STANDARD_16X |-> 4, HIGH_32X |-> 5, HIGH_64X |-> 6, HIGH_128X |-> 7]

SamplingRate == [SAMPLING_1HZ |-> 0, SAMPLING_2HZ |-> 1, SAMPLING_4HZ |-> 2,
                 SAMPLING_8HZ |-> 3, SAMPLING_16HZ |-> 4, SAMPLING_32HZ |-> 5,
                 SAMPLING_64HZ |-> 6, SAMPLING_128HZ |-> 7]

OperationMode == [STANDBY |-> 0, ONE_SHOT_PRESSURE |-> 1, ONE_SHOT_TEMPERATURE |-> 2,
                  CONTINUOUS_PRESSURE |-> 5, CONTINUOUS_TEMPERATURE |-> 6,
                  CONTINUOUS_PRESSURE_AND_TEMPERATURE |-> 7]

TemperatureSource == [ASIC_LOW_POWER |-> 0, MEMS_HIGH_PRECISION |-> 1]

DPS310_Register ==
    [PRS_B2 |-> 0, PRS_B1 |-> 1, PRS_B0 |-> 2, TMP_B2 |-> 3, TMP_B1 |-> 4, TMP_B0 |-> 5,
     PRS_CFG |-> 6, TMP_CFG |-> 7, MEAS_CFG |-> 8, CFG_REG |-> 9, INT_STS |-> 10,
     FIFO_STS |-> 11, RESET |-> 12, PRODUCT_ID |-> 13, C0_MSB |-> 16,
     C0_LSB_C1_MSB |-> 17, C1_LSB |-> 18, C00_MSB |-> 19, C00_MID |-> 20,
     C00_LSB_C10_MSB |-> 21, C10_MID |-> 22, C10_LSB |-> 23, C01_MSB |-> 24,
     C01_LSB |-> 25, C11_MSB |-> 26, C11_LSB |-> 27, C20_MSB |-> 28, C20_LSB |-> 29,
     C21_MSB |-> 30, C21_LSB |-> 31, C30_MSB |-> 32, C30_LSB |-> 33, COEF_SRCE |-> 40]

PRS_CFG == [PM_RATE0 |-> 4, PM_PRC0 |-> 0]

TMP_CFG == [TMP_EXT |-> 7, TMP_RATE0 |-> 4, TMP_PRC0 |-> 0]

MEAS_CFG == [COEF_RDY |-> 7, SENSOR_RDY |-> 6, TMP_RDY |-> 5, PRS_RDY |-> 4,
             MEAS_CTRL0 |-> 0]

CFG_REG == [T_SHIFT |-> 3, P_SHIFT |-> 2]

COEF_SRCE == [TMP_COEF_SRCE |-> 7]

GENUINE_PRODUCT_ID == 16

\* ------------------------------------------------------------ bit helpers
Pow2(n) == 2 ^ n

RECURSIVE BitAnd(_, _)
BitAnd(a, b) ==
    IF a = 0 \/ b = 0 THEN 0
    ELSE (IF a % 2 = 1 /\ b % 2 = 1 THEN 1 ELSE 0) + 2 * BitAnd(a \div 2, b \div 2)

RECURSIVE BitOr(_, _)
BitOr(a, b) ==
    IF a = 0 THEN b
    ELSE IF b = 0 THEN a
    ELSE (IF a % 2 = 1 \/ b % 2 = 1 THEN 1 ELSE 0) + 2 * BitOr(a \div 2, b \div 2)

\* ~x seen through a w-bit target
BitNot(x, w) == (Pow2(w) - 1) - (x % Pow2(w))

hasBitSet(target, bit) == (target \div Pow2(bit)) % 2 = 1

\* setBit that sets the bit whatever the value
setBit_AlwaysSet(target, position, value, w) == BitOr(target, Pow2(position)) % Pow2(w)

\* setBit on a w-bit target (w = 8 for uint8_t, 16 for uint16_t)
setBit(target, position, value, w) ==
    IF value > 0
    THEN BitOr(target, Pow2(position)) % Pow2(w)
    ELSE BitAnd(target, BitNot(Pow2(position), w))

\* setPattern whose mask is one bit wider than the field
setPattern_WideMask(target, position, value, width, w) ==
    BitOr(BitAnd(target,
                 BitNot(((Pow2(w) - 1) \div Pow2(w - width - 1)) * Pow2(position), w)),
          value * Pow2(position)) % Pow2(w)

\* setPattern on a w-bit target
setPattern(target, position, value, width, w) ==
    BitOr(BitAnd(target, BitNot(((Pow2(w) - 1) \div Pow2(w - width)) * Pow2(position), w)),
          value * Pow2(position)) % Pow2(w)

\* twosComplement() that only masks and never extends the sign
twosComplement_NoExtension(raw_value, bit_length) ==
    raw_value % Pow2(bit_length)

twosComplement(raw_value, bit_length) ==
    IF hasBitSet(raw_value, bit_length - 1)
    THEN (raw_value % Pow2(bit_length)) - Pow2(bit_length)
    ELSE raw_value % Pow2(bit_length)

getMeasurementTimeFor(precision) ==
    CASE precision = Precision.LOW_1X -> 4
      [] precision = Precision.LOW_2X -> 6
      [] precision = Precision.LOW_4X -> 9
      [] precision = Precision.LOW_8X -> 15
      [] precision = Precision.STANDARD_16X -> 28
      [] precision = Precision.HIGH_32X -> 54
      [] precision = Precision.HIGH_64X -> 105
      [] precision = Precision.HIGH_128X -> 207
      [] OTHER -> 0

\* Scale factors that keep growing past 8x
getScaleFactorFor_Growing(precision) ==
    CASE precision = Precision.LOW_1X -> 524288
      [] precision = Precision.LOW_2X -> 1572864
      [] precision = Precision.LOW_4X -> 3670016
      [] precision = Precision.LOW_8X -> 7864320
      [] precision = Precision.STANDARD_16X -> 16252928
      [] precision = Precision.HIGH_32X -> 516096
      [] precision = Precision.HIGH_64X -> 1040384
      [] precision = Precision.HIGH_128X -> 2088960
      [] OTHER -> 0

getScaleFactorFor(precision) ==
    CASE precision = Precision.LOW_1X -> 524288
      [] precision = Precision.LOW_2X -> 1572864
      [] precision = Precision.LOW_4X -> 3670016
      [] precision = Precision.LOW_8X -> 7864320
      [] precision = Precision.STANDARD_16X -> 253952
      [] precision = Precision.HIGH_32X -> 516096
      [] precision = Precision.HIGH_64X -> 1040384
      [] precision = Precision.HIGH_128X -> 2088960
      [] OTHER -> 0

\* ------------------------------------------------------------ bus transport
\* One entry of the bus trace of a call: what the driver asked of Wire.
\*   Wire.begin / Wire.end     open, close
\*   write   a write transaction: register address byte, then `data`
\*   read    a read transaction that delivered the bytes `data`
\*   no_writer / no_reader     Wire.get_writer / Wire.get_reader gave nothing
Ev(op, reg, data) == [op |-> op, reg |-> reg, data |-> data]

\* What the environment does to one register read: `how` is the outcome,
\* `val` the bytes delivered (how = "ok") or the bytes that happen to be in
\* the unwritten destination (otherwise).
ReadOutcomes(S) == [how : {"ok", "no_writer", "no_reader"}, val : S]

\* The same where the code does not read the destination after a failure:
\* one failure of each kind is enough (g fills the unread destination).
ReadOutcomesUnread(S, g) ==
    [how : {"ok"}, val : S] \cup [how : {"no_writer", "no_reader"}, val : {g}]

WriteOutcomes == {"ok", "no_writer"}

\* A call in progress: the result of the last register operation, _error,
\* the bus trace so far and the destination of the last read.
Ctx(error, bus) == [res |-> Result.SUCCESS, error |-> error, bus |-> bus, dst |-> 0]

\* read() that reports a lost transaction as FAILED_UNKNOWN
read_Unknown(m, reg, n, o) ==
    CASE o.how = "no_writer" ->
           [res |-> Result.FAILED_UNKNOWN, error |-> Result.FAILED_UNKNOWN,
            bus |-> Append(m.bus, Ev("no_writer", reg, <<>>)),
            dst |-> IF n = 1 THEN o.val[1] ELSE o.val[1] * 256 + o.val[2]]
      [] o.how = "no_reader" ->
           [res |-> Result.FAILED_UNKNOWN, error |-> Result.FAILED_UNKNOWN,
            bus |-> m.bus \o <<Ev("write", reg, <<>>), Ev("no_reader", reg, <<n>>)>>,
            dst |-> IF n = 1 THEN o.val[1] ELSE o.val[1] * 256 + o.val[2]]
      [] OTHER ->
           [res |-> Result.SUCCESS, error |-> m.error,
            bus |-> m.bus \o <<Ev("write", reg, <<>>), Ev("read", reg, o.val)>>,
            dst |-> IF n = 1 THEN o.val[1] ELSE o.val[1] * 256 + o.val[2]]

\* read(reg, uint8_t* dst) for n = 1, read(reg, uint16_t* dst) for n = 2
read(m, reg, n, o) ==
    CASE o.how = "no_writer" ->
           [res |-> Result.FAILED_NOT_RESPONDING, error |-> Result.FAILED_NOT_RESPONDING,
            bus |-> Append(m.bus, Ev("no_writer", reg, <<>>)),
            dst |-> IF n = 1 THEN o.val[1] ELSE o.val[1] * 256 + o.val[2]]
      [] o.how = "no_reader" ->
           [res |-> Result.FAILED_NOT_RESPONDING, error |-> Result.FAILED_NOT_RESPONDING,
            bus |-> m.bus \o <<Ev("write", reg, <<>>), Ev("no_reader", reg, <<n>>)>>,
            dst |-> IF n = 1 THEN o.val[1] ELSE o.val[1] * 256 + o.val[2]]
      [] OTHER ->
           [res |-> Result.SUCCESS, error |-> m.error,
            bus |-> m.bus \o <<Ev("write", reg, <<>>), Ev("read", reg, o.val)>>,
            dst |-> IF n = 1 THEN o.val[1] ELSE o.val[1] * 256 + o.val[2]]

\* write() that does not look at what beginTransmission/endTransmission said
write_Unchecked(m, reg, src, w) ==
    [m EXCEPT !.res = Result.SUCCESS,
              !.bus = Append(m.bus, IF w = "no_writer" THEN Ev("no_writer", reg, <<>>)
                                    ELSE Ev("write", reg,
                                            IF src <= 255 THEN <<src>>
                                            ELSE <<(src \div 256) % 256, src % 256>>))]

\* write(reg, int src)
write(m, reg, src, w) ==
    IF w = "no_writer"
    THEN [m EXCEPT !.res = Result.FAILED_NOT_RESPONDING,
                   !.error = Result.FAILED_NOT_RESPONDING,
                   !.bus = Append(m.bus, Ev("no_writer", reg, <<>>))]
    ELSE [m EXCEPT !.res = Result.SUCCESS,
                   !.bus = Append(m.bus, Ev("write", reg,
                              IF src <= 255 THEN <<src>>
                              ELSE <<(src \div 256) % 256, src % 256>>))]

Failed(m) == m.res # Result.SUCCESS

\* bool operator!(Result)
operatorNot(result) == result # Result.SUCCESS

\* operator&& that hands on the first failure it meets
operatorAnd_KeepsFailure(lhs, rhs) ==
    IF lhs # Result.SUCCESS THEN lhs ELSE rhs

\* Result operator&&(Result, Result)
operatorAnd(lhs, rhs) ==
    IF lhs = Result.SUCCESS /\ rhs = Result.SUCCESS
    THEN Result.SUCCESS ELSE Result.FAILED_UNKNOWN

\* Result operator||(Result, Result)
operatorOr(lhs, rhs) ==
    IF lhs = Result.SUCCESS \/ rhs = Result.SUCCESS
    THEN Result.SUCCESS ELSE Result.FAILED_UNKNOWN

\* The script of a run of transactions of which at most one fails:
\* transaction number `fail`, one of F, fails (0: none does) in the way
\* `kind`; the transactions numbered in W are writes, which fail in one way.
Scripts(F, W) ==
    {s \in [fail : {0} \cup F, kind : {"no_writer", "no_reader"}] :
        (s.fail = 0 \/ s.fail \in W) => s.kind = "no_writer"}

RO(s, i, val) == [how |-> IF s.fail = i THEN s.kind ELSE "ok", val |-> val]

WO(s, i) == IF s.fail = i THEN "no_writer" ELSE "ok"

\* ------------------------------------------------------------ DPS310 data
DPS310_Settings(preset) ==
    CASE preset = "STANDARD_PRECISION_INDOOR_NAVIGATION" ->
           [temperature_sampling_rate |-> SamplingRate.SAMPLING_2HZ,
            temperature_precision |-> Precision.LOW_1X,
            temperature_source |-> TemperatureSource.MEMS_HIGH_PRECISION,
            pressure_sampling_rate |-> SamplingRate.SAMPLING_2HZ,
            pressure_precision |-> Precision.STANDARD_16X]
      [] preset = "HIGH_PRECISION_SPORTS" ->
           [temperature_sampling_rate |-> SamplingRate.SAMPLING_4HZ,
            temperature_precision |-> Precision.LOW_1X,
            temperature_source |-> TemperatureSource.MEMS_HIGH_PRECISION,
            pressure_sampling_rate |-> SamplingRate.SAMPLING_4HZ,
            pressure_precision |-> Precision.HIGH_64X]
      [] OTHER ->   \* DEFAULT, LOW_POWER_WEATHER_STATION
           [temperature_sampling_rate |-> SamplingRate.SAMPLING_1HZ,
            temperature_precision |-> Precision.LOW_1X,
            temperature_source |-> TemperatureSource.MEMS_HIGH_PRECISION,
            pressure_sampling_rate |-> SamplingRate.SAMPLING_1HZ,
            pressure_precision |-> Precision.LOW_2X]

\* The settings a sketch passes to setup() and setSettings()
DPS310_SettingsSamples ==
    {DPS310_Settings("DEFAULT"), DPS310_Settings("STANDARD_PRECISION_INDOOR_NAVIGATION")}

DPS310_AddressSamples == {DPS310_Address.SECONDARY}

\* Register contents the bus delivers (and what an unwritten local may hold)
IdSamples == {<<16>>, <<0>>}

MeasCfgSamples == {<<0>>, <<247>>}

CfgSamples == {<<0>>}

RawMsbSamples == {<<128>>}

RawSamples == {<<1>>}

\* Which of the 18 coefficient reads may fail: the first, one in the middle,
\* the last
CoefFailSamples == {1, 9, 18}

\* The 18 coefficient bytes of registers 0x10 .. 0x21
CoefImages ==
    {<<14, 46, 242, 3, 17, 143, 32, 201, 251, 190, 4, 210, 255, 56, 0, 7, 251, 154>>}

\* _coef
setC0(coef, c0_msb, c0_lsb_c1_msb) ==
    [coef EXCEPT !.c0 =
        twosComplement(BitOr(c0_msb * 16, BitAnd(c0_lsb_c1_msb \div 16, 15)), 12)]

\* setC1() that takes the high nibble of the shared byte
setC1_HighNibble(coef, c0_lsb_c1_msb, c1_lsb) ==
    [coef EXCEPT !.c1 =
        twosComplement(BitOr(BitAnd(c0_lsb_c1_msb \div 16, 15) * 256, c1_lsb), 12)]

setC1(coef, c0_lsb_c1_msb, c1_lsb) ==
    [coef EXCEPT !.c1 = twosComplement(BitOr(BitAnd(c0_lsb_c1_msb, 15) * 256, c1_lsb), 12)]

setC00(coef, c00_msb, c00_mid, c00_lsb_c10_msb) ==
    [coef EXCEPT !.c00 =
        twosComplement(BitOr(BitOr(c00_msb * 4096, c00_mid * 16),
                             BitAnd(c00_lsb_c10_msb \div 16, 15)), 20)]

setC10(coef, c00_lsb_c10_msb, c10_mid, c10_lsb) ==
    [coef EXCEPT !.c10 =
        twosComplement(BitOr(BitOr(BitAnd(c00_lsb_c10_msb, 15) * 65536, c10_mid * 256),
                             c10_lsb), 20)]

setC01(coef, c01_msb, c01_lsb) ==
    [coef EXCEPT !.c01 = twosComplement(BitOr(c01_msb * 256, c01_lsb), 16)]

setC11(coef, c11_msb, c11_lsb) ==
    [coef EXCEPT !.c11 = twosComplement(BitOr(c11_msb * 256, c11_lsb), 16)]

setC20(coef, c20_msb, c20_lsb) ==
    [coef EXCEPT !.c20 = twosComplement(BitOr(c20_msb * 256, c20_lsb), 16)]

setC21(coef, c21_msb, c21_lsb) ==
    [coef EXCEPT !.c21 = twosComplement(BitOr(c21_msb * 256, c21_lsb), 16)]

setC30(coef, c30_msb, c30_lsb) ==
    [coef EXCEPT !.c30 = twosComplement(BitOr(c30_msb * 256, c30_lsb), 16)]

ZeroCoef == [c0 |-> 0, c1 |-> 0, c00 |-> 0, c10 |-> 0, c01 |-> 0, c11 |-> 0,
             c20 |-> 0, c21 |-> 0, c30 |-> 0]

\* A float raw / scale, kept as the pair; <<0, 1>> is 0.0f
Ratio(raw, scale) == <<raw, scale>>

\* 0.5f * c0 + c1 * t_raw_scaled, kept as its arguments
TemperatureOf(coef, t) == [c0 |-> coef.c0, c1 |-> coef.c1, t |-> t]

\* The compensation with the scaled temperature and pressure exchanged
PressureOf_Exchanged(coef, p, t) ==
    [c00 |-> coef.c00, c10 |-> coef.c10, c20 |-> coef.c20, c30 |-> coef.c30,
     c01 |-> coef.c01, c11 |-> coef.c11, c21 |-> coef.c21, p |-> t, t |-> p]

\* (c00 + p*(c10 + p*(c20 + p*c30)) + t*(c01 + p*(c11 + p*c21))) / 100.0f,
\* kept as its arguments
PressureOf(coef, p, t) ==
    [c00 |-> coef.c00, c10 |-> coef.c10, c20 |-> coef.c20, c30 |-> coef.c30,
     c01 |-> coef.c01, c11 |-> coef.c11, c21 |-> coef.c21, p |-> p, t |-> t]

\* _values { 0 }
DPS310_ZeroValues ==
    [t_raw_scaled |-> Ratio(0, 1), temperature |-> TemperatureOf(ZeroCoef, Ratio(0, 1)),
     p_raw_scaled |-> Ratio(0, 1),
     pressure |-> PressureOf(ZeroCoef, Ratio(0, 1), Ratio(0, 1))]

\* ------------------------------------------------------------ DPS310 helpers
\* readId() that takes every device for a genuine one
readId_Unchecked(m, o) ==
    [read(m, DPS310_Register.PRODUCT_ID, 1, o) EXCEPT !.dst = GENUINE_PRODUCT_ID]

readId(m, o) ==
    LET a == read(m, DPS310_Register.PRODUCT_ID, 1, o)
    IN  [a EXCEPT !.dst = IF a.res = Result.SUCCESS THEN a.dst ELSE 0]

applyPressureSettings(m, settings, r1, w1, r2, w2) ==
    LET a == read(m, DPS310_Register.PRS_CFG, 1, r1)
        prs_cfg == setPattern(setPattern(a.dst, PRS_CFG.PM_RATE0,
                                         settings.pressure_sampling_rate, 3, 8),
                              PRS_CFG.PM_PRC0, settings.pressure_precision, 3, 8)
        b == write(a, DPS310_Register.PRS_CFG, prs_cfg, w1)
        c == read(b, DPS310_Register.CFG_REG, 1, r2)
        cfg_reg == setBit(c.dst, CFG_REG.P_SHIFT,
                          IF settings.pressure_precision > Precision.LOW_8X THEN 1 ELSE 0, 8)
        d == write(c, DPS310_Register.CFG_REG, cfg_reg, w2)
    IN  IF Failed(a) THEN a ELSE IF Failed(b) THEN b ELSE IF Failed(c) THEN c ELSE d

\* applyTemperatureSettings() up to its call of updateCoefficients()
applyTemperatureSettings(m, settings, r1, w1, r2, w2) ==
    LET a == read(m, DPS310_Register.TMP_CFG, 1, r1)
        tmp_cfg == setPattern(setPattern(setBit(a.dst, TMP_CFG.TMP_EXT,
                                                settings.temperature_source, 8),
                                         TMP_CFG.TMP_RATE0,
                                         settings.temperature_sampling_rate, 3, 8),
                              TMP_CFG.TMP_PRC0, settings.temperature_precision, 3, 8)
        b == write(a, DPS310_Register.TMP_CFG, tmp_cfg, w1)
        c == read(b, DPS310_Register.CFG_REG, 1, r2)
        cfg_reg == setBit(c.dst, CFG_REG.T_SHIFT,
                          IF settings.temperature_precision > Precision.LOW_8X THEN 1 ELSE 0,
                          8)
        d == write(c, DPS310_Register.CFG_REG, cfg_reg, w2)
    IN  IF Failed(a) THEN a ELSE IF Failed(b) THEN b ELSE IF Failed(c) THEN c ELSE d

applyOperationMode(m, mode, r, w) ==
    LET a == read(m, DPS310_Register.MEAS_CFG, 1, r)
        b == write(a, DPS310_Register.MEAS_CFG,
                   setPattern(a.dst, MEAS_CFG.MEAS_CTRL0, mode, 3, 8), w)
    IN  IF Failed(a) THEN a ELSE b

\* updateCoefficients(): "Set coefficient source"
updateCoefficients_source(m, settings, r, w) ==
    LET a == read(m, DPS310_Register.COEF_SRCE, 1, r)
        b == write(a, DPS310_Register.COEF_SRCE,
                   setBit(a.dst, COEF_SRCE.TMP_COEF_SRCE, settings.temperature_source, 8), w)
    IN  IF Failed(a) THEN a ELSE b

\* updateCoefficients(): the 18 reads, joined by `and`, which on Result is the
\* overloaded operator&& of the driver: every operand is evaluated, so every
\* register is read whatever the earlier reads returned (left to right).
\* s.fail is the register (1 .. 18) whose read fails, 0 if none does.
RECURSIVE readCoefficients(_, _, _, _)
readCoefficients(m, i, s, img) ==
    IF i > 18 THEN m
    ELSE LET a == read(m, DPS310_Register.C0_MSB + (i - 1), 1, RO(s, i, <<img[i]>>))
         IN  readCoefficients([a EXCEPT !.res = operatorAnd(m.res, a.res)],
                              i + 1, s, img)

\* updateCoefficients(): the setters applied to the 18 bytes read
decodeCoefficients(coef, b) ==
    setC30(setC21(setC20(setC11(setC11(setC01(setC10(setC00(setC1(setC0(coef,
        b[1], b[2]), b[2], b[3]), b[4], b[5], b[6]), b[6], b[7], b[8]),
        b[9], b[10]), b[11], b[12]), b[11], b[12]), b[13], b[14]), b[15], b[16]),
        b[17], b[18])

\* ------------------------------------------------------------ state
\* What the caller's output variables hold when read() has not written them
\* (they are locals declared right before the call)
\* The caller's output variables before a call: what the caller had in them
Unwritten == [temperature |-> [unwritten |-> TRUE],
              pressure |-> [unwritten |-> TRUE],
              voltage |-> -1]

NoEvents == <<>>

\* The record of the running or last call: the method, its return value
\* ("void", or "pending" while begin() is in a poll loop), its bus trace, the
\* arguments (set by WithArgs), the output arguments as the call left them,
\* the place where begin() stands, and the iterations made of the poll loop
\* it is in.  The trace holds the poll that ends a loop; the polls before it,
\* which found the ready bit clear, are counted in `polls` only.
Call(op, ret, bus, pc, polls) ==
    [op |-> op, ret |-> ret, bus |-> bus, args |-> <<>>, out |-> Unwritten, pc |-> pc,
     polls |-> polls]

Returned(op, ret, bus) == Call(op, ret, bus, "caller", 0)

WithArgs(c, args) == [c EXCEPT !.args = args]

DPS310_Init ==
    [state |-> "WAIT_SETUP", error |-> Result.FAILED_UNKNOWN,
     address |-> DPS310_Address.PRIMARY, settings |-> DPS310_Settings("DEFAULT"),
     coef |-> ZeroCoef, values |-> DPS310_ZeroValues]

\* setup() that keeps the settings it had
DPS310_setup_KeepsSettings ==
    /\ driver = "DPS310"
    /\ call.pc = "caller"
    /\ \E address \in DPS310_AddressSamples, settings \in DPS310_SettingsSamples :
          /\ dps' = [dps EXCEPT !.error = Result.FAILED_UNKNOWN, !.address = address,
                                !.state = "WAIT_BEGIN"]
          /\ call' = WithArgs(Returned("setup", "void", NoEvents),
                              [address |-> address, settings |-> settings])
    /\ UNCHANGED <<driver, ads, wire>>

\* ------------------------------------------------------------ DPS310 methods
DPS310_setup ==
    /\ driver = "DPS310"
    /\ call.pc = "caller"
    /\ \E address \in DPS310_AddressSamples, settings \in DPS310_SettingsSamples :
          /\ dps' = [dps EXCEPT !.error = Result.FAILED_UNKNOWN, !.address = address,
                                !.settings = settings, !.state = "WAIT_BEGIN"]
          /\ call' = WithArgs(Returned("setup", "void", NoEvents),
                              [address |-> address, settings |-> settings])
    /\ UNCHANGED <<driver, ads, wire>>

\* begin() that does not call end()
DPS310_begin_NoEnd ==
    /\ driver = "DPS310"
    /\ call.pc = "caller"
    /\ \E id \in ReadOutcomesUnread(IdSamples, <<0>>), w \in WriteOutcomes :
          LET a == readId(Ctx(dps.error, <<Ev("Wire.begin", -1, <<>>)>>), id)
              b == write(a, DPS310_Register.RESET, 9, w)
              genuine == a.dst = GENUINE_PRODUCT_ID
              m == IF genuine THEN b ELSE a
              returns == ~genuine \/ Failed(b)
          IN  /\ dps' = [dps EXCEPT !.error = m.error]
              /\ call' = IF returns THEN Returned("begin", "void", m.bus)
                         ELSE Call("begin", "pending", m.bus, "softReset", 0)
    /\ wire' = TRUE
    /\ UNCHANGED <<driver, ads>>

\* begin() up to the poll loop of softReset()
DPS310_begin ==
    /\ driver = "DPS310"
    /\ call.pc = "caller"
    /\ \E id \in ReadOutcomesUnread(IdSamples, <<0>>), w \in WriteOutcomes :
          LET bus0 == (IF dps.state # "WAIT_BEGIN"
                       THEN <<Ev("Wire.end", -1, <<>>)>> ELSE <<>>)
                      \o <<Ev("Wire.begin", -1, <<>>)>>
              a == readId(Ctx(dps.error, bus0), id)
              b == write(a, DPS310_Register.RESET, 9, w)
              genuine == a.dst = GENUINE_PRODUCT_ID
              m == IF genuine THEN b ELSE a
              returns == ~genuine \/ Failed(b)
          IN  /\ dps' = [dps EXCEPT !.state = "WAIT_BEGIN", !.error = m.error]
              /\ call' = IF returns THEN Returned("begin", "void", m.bus)
                         ELSE Call("begin", "pending", m.bus, "softReset", 0)
    /\ wire' = TRUE
    /\ UNCHANGED <<driver, ads>>

\* One iteration of the poll loop of softReset(); when SENSOR_RDY is set,
\* begin() goes on up to the poll loop of updateCoefficients().
DPS310_softReset ==
    /\ driver = "DPS310"
    /\ call.pc = "softReset"
    /\ \E poll \in ReadOutcomesUnread(MeasCfgSamples, <<0>>) :
          LET a == read(Ctx(dps.error, call.bus), DPS310_Register.MEAS_CFG, 1, poll)
          IN  IF Failed(a)
              THEN /\ dps' = [dps EXCEPT !.error = a.error]
                   /\ call' = Returned("begin", "void", a.bus)
              ELSE IF ~hasBitSet(a.dst, MEAS_CFG.SENSOR_RDY)
              THEN /\ dps' = dps
                   /\ call' = Call("begin", "pending", call.bus, "softReset",
                                   IF call.polls < MaxPolls THEN call.polls + 1
                                   ELSE call.polls)
              ELSE \E s \in Scripts(1 .. 10, {2, 4, 6, 8, 10}), v \in [1 .. 5 -> CfgSamples] :
                      LET b == applyPressureSettings(a, dps.settings,
                                   RO(s, 1, v[1]), WO(s, 2), RO(s, 3, v[2]), WO(s, 4))
                          c == applyTemperatureSettings(b, dps.settings,
                                   RO(s, 5, v[3]), WO(s, 6), RO(s, 7, v[4]), WO(s, 8))
                          d == updateCoefficients_source(c, dps.settings,
                                   RO(s, 9, v[5]), WO(s, 10))
                          m == IF Failed(b) THEN b ELSE IF Failed(c) THEN c ELSE d
                      IN  /\ dps' = [dps EXCEPT !.error = m.error]
                          /\ call' = IF Failed(m) THEN Returned("begin", "void", m.bus)
                                     ELSE Call("begin", "pending", m.bus,
                                               "updateCoefficients", 0)
    /\ UNCHANGED <<driver, ads, wire>>

\* One iteration of the poll loop of updateCoefficients(); when COEF_RDY is
\* set, begin() runs to its end.
DPS310_updateCoefficients ==
    /\ driver = "DPS310"
    /\ call.pc = "updateCoefficients"
    /\ \E poll \in ReadOutcomesUnread(MeasCfgSamples, <<0>>) :
          LET a == read(Ctx(dps.error, call.bus), DPS310_Register.MEAS_CFG, 1, poll)
          IN  IF Failed(a)
              THEN /\ dps' = [dps EXCEPT !.error = a.error]
                   /\ call' = Returned("begin", "void", a.bus)
              ELSE IF ~hasBitSet(a.dst, MEAS_CFG.COEF_RDY)
              THEN /\ dps' = dps
                   /\ call' = Call("begin", "pending", call.bus, "updateCoefficients",
                                   IF call.polls < MaxPolls THEN call.polls + 1
                                   ELSE call.polls)
              ELSE \E s \in Scripts(CoefFailSamples, {}), img \in CoefImages :
                      LET b == readCoefficients(a, 1, s, img)
                      IN  IF Failed(b)
                          THEN /\ dps' = [dps EXCEPT !.error = b.error]
                               /\ call' = Returned("begin", "void", b.bus)
                          ELSE \E r \in ReadOutcomesUnread(MeasCfgSamples, <<0>>),
                                  w \in WriteOutcomes :
                                  LET c == applyOperationMode(b, OperationMode.STANDBY,
                                                              r, w)
                                  IN  /\ dps' =
                                          [dps EXCEPT
                                             !.error = c.error,
                                             !.coef = decodeCoefficients(dps.coef, img),
                                             !.state = IF Failed(c) THEN "WAIT_BEGIN"
                                                       ELSE "IDLE"]
                                      /\ call' = Returned("begin", "void", c.bus)
    /\ UNCHANGED <<driver, ads, wire>>

\* end() that closes the bus and keeps the state
DPS310_end_KeepsState ==
    /\ driver = "DPS310"
    /\ call.pc = "caller"
    /\ IF dps.state = "WAIT_BEGIN"
       THEN /\ call' = Returned("end", "void", NoEvents)
            /\ UNCHANGED <<dps, wire>>
       ELSE /\ call' = Returned("end", "void", <<Ev("Wire.end", -1, <<>>)>>)
            /\ wire' = FALSE
            /\ dps' = dps
    /\ UNCHANGED <<driver, ads>>

\* end() without its guard
DPS310_end_Unguarded ==
    /\ driver = "DPS310"
    /\ call.pc = "caller"
    /\ call' = Returned("end", "void", <<Ev("Wire.end", -1, <<>>)>>)
    /\ wire' = FALSE
    /\ dps' = [dps EXCEPT !.state = "WAIT_BEGIN"]
    /\ UNCHANGED <<driver, ads>>

\* end() that forgets the calibration
DPS310_end_ClearsCoef ==
    /\ driver = "DPS310"
    /\ call.pc = "caller"
    /\ IF dps.state = "WAIT_BEGIN"
       THEN /\ call' = Returned("end", "void", NoEvents)
            /\ UNCHANGED <<dps, wire>>
       ELSE /\ call' = Returned("end", "void", <<Ev("Wire.end", -1, <<>>)>>)
            /\ wire' = FALSE
            /\ dps' = [dps EXCEPT !.state = "WAIT_BEGIN", !.coef = ZeroCoef]
    /\ UNCHANGED <<driver, ads>>

DPS310_end ==
    /\ driver = "DPS310"
    /\ call.pc = "caller"
    /\ IF dps.state = "WAIT_BEGIN"
       THEN /\ call' = Returned("end", "void", NoEvents)
            /\ UNCHANGED <<dps, wire>>
       ELSE /\ call' = Returned("end", "void", <<Ev("Wire.end", -1, <<>>)>>)
            /\ wire' = FALSE
            /\ dps' = [dps EXCEPT !.state = "WAIT_BEGIN"]
    /\ UNCHANGED <<driver, ads>>

\* request() without its guard
DPS310_request_Unguarded ==
    /\ driver = "DPS310"
    /\ call.pc = "caller"
    /\ \E r \in ReadOutcomesUnread(MeasCfgSamples, <<0>>), w \in WriteOutcomes :
          LET a == applyOperationMode(Ctx(dps.error, NoEvents),
                                      OperationMode.ONE_SHOT_TEMPERATURE, r, w)
          IN  /\ dps' = [dps EXCEPT !.error = a.error,
                                    !.state = IF Failed(a) THEN @ ELSE "TEMP_BUSY"]
              /\ call' = Returned("request",
                                  IF Failed(a) THEN a.error ELSE Result.SUCCESS, a.bus)
    /\ UNCHANGED <<driver, ads, wire>>

DPS310_request ==
    /\ driver = "DPS310"
    /\ call.pc = "caller"
    /\ IF dps.state # "IDLE"
       THEN /\ dps' = [dps EXCEPT !.error = Result.FAILED_BUSY]
            /\ call' = Returned("request", Result.FAILED_BUSY, NoEvents)
       ELSE \E r \in ReadOutcomesUnread(MeasCfgSamples, <<0>>), w \in WriteOutcomes :
               LET a == applyOperationMode(Ctx(dps.error, NoEvents),
                                           OperationMode.ONE_SHOT_TEMPERATURE, r, w)
               IN  /\ dps' = [dps EXCEPT !.error = a.error,
                                         !.state = IF Failed(a) THEN "IDLE"
                                                   ELSE "TEMP_BUSY"]
                   /\ call' = Returned("request",
                                       IF Failed(a) THEN a.error ELSE Result.SUCCESS,
                                       a.bus)
    /\ UNCHANGED <<driver, ads, wire>>

\* read() without its guard
DPS310_read_Unguarded ==
    /\ driver = "DPS310"
    /\ call.pc = "caller"
    /\ dps' = [dps EXCEPT !.state = "IDLE"]
    /\ call' = [Returned("read", Result.SUCCESS, NoEvents) EXCEPT
                    !.out.temperature = dps.values.temperature,
                    !.out.pressure = dps.values.pressure]
    /\ UNCHANGED <<driver, ads, wire>>

\* read() that leaves the result AVAILABLE
DPS310_read_Peek ==
    /\ driver = "DPS310"
    /\ call.pc = "caller"
    /\ IF dps.state # "AVAILABLE"
       THEN /\ dps' = [dps EXCEPT !.error = Result.FAILED_BUSY]
            /\ call' = Returned("read", Result.FAILED_BUSY, NoEvents)
       ELSE /\ dps' = dps
            /\ call' = [Returned("read", Result.SUCCESS, NoEvents) EXCEPT
                            !.out.temperature = dps.values.temperature,
                            !.out.pressure = dps.values.pressure]
    /\ UNCHANGED <<driver, ads, wire>>

DPS310_read ==
    /\ driver = "DPS310"
    /\ call.pc = "caller"
    /\ IF dps.state # "AVAILABLE"
       THEN /\ dps' = [dps EXCEPT !.error = Result.FAILED_BUSY]
            /\ call' = Returned("read", Result.FAILED_BUSY, NoEvents)
       ELSE /\ dps' = [dps EXCEPT !.state = "IDLE"]
            /\ call' = [Returned("read", Result.SUCCESS, NoEvents) EXCEPT
                            !.out.temperature = dps.values.temperature,
                            !.out.pressure = dps.values.pressure]
    /\ UNCHANGED <<driver, ads, wire>>

\* available() that takes the result
DPS310_available_Consuming ==
    /\ driver = "DPS310"
    /\ call.pc = "caller"
    /\ call' = Returned("available", IF dps.state = "AVAILABLE" THEN "true" ELSE "false",
                        NoEvents)
    /\ dps' = [dps EXCEPT !.state = IF @ = "AVAILABLE" THEN "IDLE" ELSE @]
    /\ UNCHANGED <<driver, ads, wire>>

DPS310_available ==
    /\ driver = "DPS310"
    /\ call.pc = "caller"
    /\ call' = Returned("available", IF dps.state = "AVAILABLE" THEN "true" ELSE "false",
                        NoEvents)
    /\ UNCHANGED <<driver, dps, ads, wire>>

\* setSettings() that asks for a new begin()
DPS310_setSettings_Resetting ==
    /\ driver = "DPS310"
    /\ call.pc = "caller"
    /\ \E settings \in DPS310_SettingsSamples :
          /\ dps' = [dps EXCEPT !.settings = settings, !.state = "WAIT_BEGIN"]
          /\ call' = WithArgs(Returned("setSettings", "void", NoEvents),
                              [settings |-> settings])
    /\ UNCHANGED <<driver, ads, wire>>

DPS310_setSettings ==
    /\ driver = "DPS310"
    /\ call.pc = "caller"
    /\ \E settings \in DPS310_SettingsSamples :
          /\ dps' = [dps EXCEPT !.settings = settings]
          /\ call' = WithArgs(Returned("setSettings", "void", NoEvents),
                              [settings |-> settings])
    /\ UNCHANGED <<driver, ads, wire>>

DPS310_setAddress ==
    /\ driver = "DPS310"
    /\ call.pc = "caller"
    /\ \E address \in DPS310_AddressSamples :
          /\ dps' = [dps EXCEPT !.address = address]
          /\ call' = WithArgs(Returned("setAddress", "void", NoEvents),
                              [address |-> address])
    /\ UNCHANGED <<driver, ads, wire>>

\* The status poll of update() without the test of the ready bit
DPS310_poll_NoReadyTest(m, bit, error_state, busy_state, complete_state) ==
    IF Failed(m) THEN error_state ELSE busy_state

\* update(), case TEMP_BUSY / PRES_BUSY: the state after the poll of `bit`
DPS310_poll(m, bit, error_state, busy_state, complete_state) ==
    LET s1 == IF Failed(m) THEN error_state ELSE busy_state
    IN  IF hasBitSet(m.dst, bit) THEN complete_state ELSE s1

\* update() that drops a result nobody has read
DPS310_defaultCase_Dropping(state) == IF state = "AVAILABLE" THEN "IDLE" ELSE state

\* update(), default: break
DPS310_defaultCase(state) == state

\* update() that leaves an error state as it found it
DPS310_leaveError_Stuck(state) == state

\* update(), case TEMP_ERROR / PRES_ERROR: set(State::IDLE)
DPS310_leaveError(state) == "IDLE"

\* update(), case TEMP_COMPLETE / PRES_COMPLETE: the three data reads, each
\* made whatever the one before returned
DPS310_readRaw(m, reg, r1, r2, r3) ==
    LET a == read(m, reg, 1, r1)
        b == read(a, reg + 1, 1, r2)
        c == read(b, reg + 2, 1, r3)
    IN  [c EXCEPT !.dst = twosComplement(BitOr(BitOr(a.dst * 65536, b.dst * 256),
                                               c.dst), 24),
                  !.res = IF Failed(a) \/ Failed(b) \/ Failed(c)
                          THEN Result.FAILED_NOT_RESPONDING ELSE Result.SUCCESS]

DPS310_updateCall(msbs, raws) ==
    /\ driver = "DPS310"
    /\ call.pc = "caller"
    /\ CASE dps.state = "TEMP_BUSY" ->
              \E r \in ReadOutcomes(MeasCfgSamples) :
                 LET a == read(Ctx(dps.error, NoEvents), DPS310_Register.MEAS_CFG, 1, r)
                 IN  /\ dps' = [dps EXCEPT !.error = a.error,
                                   !.state = DPS310_poll(a, MEAS_CFG.TMP_RDY, "TEMP_ERROR",
                                                         "TEMP_BUSY", "TEMP_COMPLETE")]
                     /\ call' = Returned("update", "void", a.bus)
         [] dps.state = "TEMP_COMPLETE" ->
              \E s \in Scripts(1 .. 3, {}), v1 \in msbs, v2 \in raws,
                 v3 \in raws, r \in ReadOutcomesUnread(MeasCfgSamples, <<0>>),
                 w \in WriteOutcomes :
                 LET a == DPS310_readRaw(Ctx(dps.error, NoEvents), DPS310_Register.TMP_B2,
                                         RO(s, 1, v1), RO(s, 2, v2), RO(s, 3, v3))
                     t == Ratio(a.dst, getScaleFactorFor(dps.settings.temperature_precision))
                     b == applyOperationMode(a, OperationMode.ONE_SHOT_PRESSURE, r, w)
                 IN  /\ dps' = [dps EXCEPT !.error = b.error,
                                   !.values.t_raw_scaled = t,
                                   !.values.temperature = TemperatureOf(dps.coef, t),
                                   !.state = IF Failed(b) THEN "PRES_ERROR"
                                             ELSE "PRES_BUSY"]
                     /\ call' = Returned("update", "void", b.bus)
         [] dps.state = "PRES_BUSY" ->
              \E r \in ReadOutcomes(MeasCfgSamples) :
                 LET a == read(Ctx(dps.error, NoEvents), DPS310_Register.MEAS_CFG, 1, r)
                 IN  /\ dps' = [dps EXCEPT !.error = a.error,
                                   !.state = DPS310_poll(a, MEAS_CFG.PRS_RDY, "PRES_ERROR",
                                                         "PRES_BUSY", "PRES_COMPLETE")]
                     /\ call' = Returned("update", "void", a.bus)
         [] dps.state = "PRES_COMPLETE" ->
              \E s \in Scripts(1 .. 3, {}), v1 \in msbs, v2 \in raws,
                 v3 \in raws :
                 LET a == DPS310_readRaw(Ctx(dps.error, NoEvents), DPS310_Register.PRS_B2,
                                         RO(s, 1, v1), RO(s, 2, v2), RO(s, 3, v3))
                     p == Ratio(a.dst, getScaleFactorFor(dps.settings.pressure_precision))
                 IN  /\ dps' = [dps EXCEPT !.error = a.error,
                                   !.values.p_raw_scaled = p,
                                   !.values.pressure =
                                       PressureOf(dps.coef, p, dps.values.t_raw_scaled),
                                   !.state = "AVAILABLE"]
                     /\ call' = Returned("update", "void", a.bus)
         [] dps.state \in {"TEMP_ERROR", "PRES_ERROR"} ->
              /\ dps' = [dps EXCEPT !.state = DPS310_leaveError(dps.state)]
              /\ call' = WithArgs(Returned("update", "void", NoEvents),
                                  [state |-> dps.state])
         [] OTHER ->
              /\ dps' = [dps EXCEPT !.state = DPS310_defaultCase(dps.state)]
              /\ call' = Returned("update", "void", NoEvents)
    /\ UNCHANGED <<driver, ads, wire>>

DPS310_update == DPS310_updateCall(RawMsbSamples, RawSamples)

DPS310_Next ==
    \/ DPS310_setup
    \/ DPS310_begin
    \/ DPS310_softReset
    \/ DPS310_updateCoefficients
    \/ DPS310_update
    \/ DPS310_end
    \/ DPS310_request
    \/ DPS310_read
    \/ DPS310_available
    \/ DPS310_setSettings
    \/ DPS310_setAddress

\* ------------------------------------------------------------ ADS1x1x data
DeviceType == [ADS101x |-> "ADS101x", ADS111x |-> "ADS111x"]

ChannelConfig == [AIN0_AIN1 |-> 1, AIN0_AIN3 |-> 3, AIN1_AIN3 |-> 19, AIN2_AIN3 |-> 35,
                  AIN0_GND |-> 0, AIN1_GND |-> 16, AIN2_GND |-> 32, AIN3_GND |-> 48]

FullScaleRange == [FSR_6144mV |-> 6144, FSR_4096mV |-> 4096, FSR_2048mV |-> 2048,
                   FSR_1024mV |-> 1024, FSR_0512mV |-> 512, FSR_0256mV |-> 256]

DataRate == [DR_0128SPS |-> 128, DR_0250SPS |-> 250, DR_0490SPS |-> 490,
             DR_0920SPS |-> 920, DR_1600SPS |-> 1600, DR_2400SPS |-> 2400,
             DR_3300SPS |-> 3300, DR_0008SPS |-> 8, DR_0016SPS |-> 16, DR_0032SPS |-> 32,
             DR_0064SPS |-> 64, DR_0475SPS |-> 475, DR_0860SPS |-> 860]

ADS1x1x_Register == [CONVERSION_REGISTER |-> 0, CONFIG_REGISTER |-> 1,
                     LO_THRESH_REGISTER |-> 2, HI_THRESH_REGISTER |-> 3]

CONFIG_REGISTER == [CONF_OS |-> 15, CONF_MUX0 |-> 12, CONF_PGA0 |-> 9, CONF_MODE |-> 8,
                    CONF_DR0 |-> 5]

ADS1x1x_Settings(cc, fsr, dr) ==
    [channel_config |-> cc, full_scale_range |-> fsr, data_rate |-> dr]

\* Settings(Presets::DEFAULT)
ADS1x1x_DefaultSettings ==
    ADS1x1x_Settings(ChannelConfig.AIN0_AIN1, FullScaleRange.FSR_2048mV,
                     DataRate.DR_0128SPS)

\* The settings, device types, addresses and channels a sketch passes
ADS1x1x_SettingsSamples ==
    {ADS1x1x_DefaultSettings,
     ADS1x1x_Settings(ChannelConfig.AIN3_GND, FullScaleRange.FSR_6144mV,
                      DataRate.DR_0860SPS)}

ADS1x1x_DeviceTypeSamples == {DeviceType.ADS101x, DeviceType.ADS111x}

ADS1x1x_AddressSamples == {ADS1x1x_Address.SECONDARY}

ChannelSamples == {ChannelConfig.AIN3_GND}

\* Contents of the configuration register (0x8583 after reset, 0x0000) and
\* of the conversion register (0xFFF0), most significant byte first
ConfigSamples == {<<133, 131>>, <<0, 0>>}

ConversionSamples == {<<255, 240>>}

\* The transactions of begin() that fail in a run, of its six: the read of
\* applyFullScaleRange(), the write of applyDataRate(), the read of "Single-shot"
BeginFailSamples == {1, 4, 5}

\* uint32_t values are pairs <<high 16 bits, low 16 bits>>
U32(hi, lo) == <<hi, lo>>

\* a - b that drops the borrow of the low half
Sub32_NoBorrow(a, b) ==
    U32((a[1] - b[1] + 65536) % 65536, (a[2] - b[2] + 65536) % 65536)

\* a - b in uint32_t
Sub32(a, b) ==
    LET lo == a[2] - b[2]
        borrow == IF lo < 0 THEN 1 ELSE 0
    IN  U32((a[1] - b[1] - borrow + 65536) % 65536, (lo + 65536) % 65536)

\* a >= n in uint32_t, for n below 65536
GreaterEq32(a, n) == a[1] > 0 \/ a[2] >= n

\* The readings of millis(): request() sees 2^32 - 4 or 3, update() sees
\* 3 or 4, that is 7 ms, 8 ms, 0 ms or 1 ms after the request
RequestTimeSamples == {U32(65535, 65532), U32(0, 3)}

UpdateTimeSamples == {U32(0, 3), U32(0, 4)}

\* getConversionDelay() that rounds down
getConversionDelay_Floor(dr) == 1000 \div dr

getConversionDelay(dr) == (1000 + dr - 1) \div dr

\* MUX codes with the single-ended channels before the differential ones
MuxCode_SingleEndedFirst(channel_config) ==
    CASE channel_config = ChannelConfig.AIN0_AIN1 -> 4
      [] channel_config = ChannelConfig.AIN0_AIN3 -> 5
      [] channel_config = ChannelConfig.AIN1_AIN3 -> 6
      [] channel_config = ChannelConfig.AIN2_AIN3 -> 7
      [] channel_config = ChannelConfig.AIN0_GND -> 0
      [] channel_config = ChannelConfig.AIN1_GND -> 1
      [] channel_config = ChannelConfig.AIN2_GND -> 2
      [] channel_config = ChannelConfig.AIN3_GND -> 3
      [] OTHER -> -1

\* The MUX code request() writes for a channel; -1: the field is left as read
MuxCode(channel_config) ==
    CASE channel_config = ChannelConfig.AIN0_AIN1 -> 0
      [] channel_config = ChannelConfig.AIN0_AIN3 -> 1
      [] channel_config = ChannelConfig.AIN1_AIN3 -> 2
      [] channel_config = ChannelConfig.AIN2_AIN3 -> 3
      [] channel_config = ChannelConfig.AIN0_GND -> 4
      [] channel_config = ChannelConfig.AIN1_GND -> 5
      [] channel_config = ChannelConfig.AIN2_GND -> 6
      [] channel_config = ChannelConfig.AIN3_GND -> 7
      [] OTHER -> -1

\* The PGA code applyFullScaleRange() writes
PgaCode(full_scale_range) ==
    CASE full_scale_range = FullScaleRange.FSR_6144mV -> 0
      [] full_scale_range = FullScaleRange.FSR_4096mV -> 1
      [] full_scale_range = FullScaleRange.FSR_2048mV -> 2
      [] full_scale_range = FullScaleRange.FSR_1024mV -> 3
      [] full_scale_range = FullScaleRange.FSR_0512mV -> 4
      [] full_scale_range = FullScaleRange.FSR_0256mV -> 5
      [] OTHER -> 2

\* The DR code applyDataRate() writes
DrCode(device_type, data_rate) ==
    IF device_type = DeviceType.ADS101x
    THEN CASE data_rate = DataRate.DR_0128SPS -> 0
           [] data_rate = DataRate.DR_0250SPS -> 1
           [] data_rate = DataRate.DR_0490SPS -> 2
           [] data_rate = DataRate.DR_0920SPS -> 3
           [] data_rate = DataRate.DR_1600SPS -> 4
           [] data_rate = DataRate.DR_2400SPS -> 5
           [] data_rate = DataRate.DR_3300SPS -> 6
           [] OTHER -> 4
    ELSE CASE data_rate = DataRate.DR_0008SPS -> 0
           [] data_rate = DataRate.DR_0016SPS -> 1
           [] data_rate = DataRate.DR_0032SPS -> 2
           [] data_rate = DataRate.DR_0064SPS -> 3
           [] data_rate = DataRate.DR_0128SPS -> 4
           [] data_rate = DataRate.DR_0250SPS -> 5
           [] data_rate = DataRate.DR_0475SPS -> 6
           [] data_rate = DataRate.DR_0860SPS -> 6
           [] OTHER -> 4

ADS1x1x_Init(error) ==
    [state |-> "WAIT_SETUP", error |-> error, address |-> ADS1x1x_Address.PRIMARY,
     device_type |-> DeviceType.ADS101x, settings |-> ADS1x1x_DefaultSettings,
     latest_request_time |-> U32(0, 0), values |-> [raw |-> 0, voltage |-> 0]]

\* ------------------------------------------------------------ ADS1x1x helpers
applyFullScaleRange(m, settings, r, w) ==
    LET a == read(m, ADS1x1x_Register.CONFIG_REGISTER, 2, r)
        b == write(a, ADS1x1x_Register.CONFIG_REGISTER,
                   setPattern(a.dst, CONFIG_REGISTER.CONF_PGA0,
                              PgaCode(settings.full_scale_range), 3, 16), w)
    IN  IF Failed(a) THEN a ELSE b

applyDataRate(m, device_type, settings, r, w) ==
    LET a == read(m, ADS1x1x_Register.CONFIG_REGISTER, 2, r)
        b == write(a, ADS1x1x_Register.CONFIG_REGISTER,
                   setPattern(a.dst, CONFIG_REGISTER.CONF_DR0,
                              DrCode(device_type, settings.data_rate), 3, 16), w)
    IN  IF Failed(a) THEN a ELSE b

\* begin(): "Single-shot"
ADS1x1x_singleShot(m, r, w) ==
    LET a == read(m, ADS1x1x_Register.CONFIG_REGISTER, 2, r)
        b == write(a, ADS1x1x_Register.CONFIG_REGISTER,
                   setBit(a.dst, CONFIG_REGISTER.CONF_MODE, 1, 16), w)
    IN  IF Failed(a) THEN a ELSE b

\* request(): the configuration word for a channel
ADS1x1x_startWord(config_reg, channel_config) ==
    LET os == setBit(config_reg, CONFIG_REGISTER.CONF_OS, 1, 16)
    IN  IF MuxCode(channel_config) < 0 THEN os
        ELSE setPattern(os, CONFIG_REGISTER.CONF_MUX0, MuxCode(channel_config), 3, 16)

\* The conversion with the voltage kept in 12 bits
ADS1x1x_convert_Narrow(device_type, settings, conv_reg) ==
    IF device_type = DeviceType.ADS101x
    THEN [raw |-> conv_reg \div 16,
          voltage |-> (((conv_reg \div 16) * settings.full_scale_range) \div 2047) % 4096]
    ELSE [raw |-> conv_reg,
          voltage |-> ((conv_reg * settings.full_scale_range) \div 32767) % 4096]

\* The conversion scaled by 0x800 and 0x8000
ADS1x1x_convert_PowerOfTwo(device_type, settings, conv_reg) ==
    IF device_type = DeviceType.ADS101x
    THEN [raw |-> conv_reg \div 16,
          voltage |-> (((conv_reg \div 16) * settings.full_scale_range) \div 2048) % 65536]
    ELSE [raw |-> conv_reg,
          voltage |-> ((conv_reg * settings.full_scale_range) \div 32768) % 65536]

\* update(), case COMPLETE: _values from the conversion register
ADS1x1x_convert(device_type, settings, conv_reg) ==
    IF device_type = DeviceType.ADS101x
    THEN [raw |-> conv_reg \div 16,
          voltage |-> (((conv_reg \div 16) * settings.full_scale_range) \div 2047) % 65536]
    ELSE [raw |-> conv_reg,
          voltage |-> ((conv_reg * settings.full_scale_range) \div 32767) % 65536]

\* ------------------------------------------------------------ ADS1x1x methods
ADS1x1x_setupCall(address, device_type, settings) ==
    /\ driver = "ADS1x1x"
    /\ call.pc = "caller"
    /\ ads' = [ads EXCEPT !.error = Result.FAILED_UNKNOWN, !.address = address,
                          !.device_type = device_type, !.settings = settings,
                          !.state = "WAIT_BEGIN",
                          !.latest_request_time = U32(0, 0)]
    /\ call' = WithArgs(Returned("setup", "void", NoEvents),
                        [address |-> address, device_type |-> device_type,
                         settings |-> settings])
    /\ UNCHANGED <<driver, dps, wire>>

ADS1x1x_setup ==
    \E address \in ADS1x1x_AddressSamples, device_type \in ADS1x1x_DeviceTypeSamples,
       settings \in ADS1x1x_SettingsSamples :
       ADS1x1x_setupCall(address, device_type, settings)

ADS1x1x_begin ==
    /\ driver = "ADS1x1x"
    /\ call.pc = "caller"
    /\ \E s \in Scripts(BeginFailSamples, {2, 4, 6}), v \in ConfigSamples :
          LET bus0 == (IF ads.state # "WAIT_BEGIN"
                       THEN <<Ev("Wire.end", -1, <<>>)>> ELSE <<>>)
                      \o <<Ev("Wire.begin", -1, <<>>)>>
              a == applyFullScaleRange(Ctx(ads.error, bus0), ads.settings,
                                       RO(s, 1, v), WO(s, 2))
              b == applyDataRate(a, ads.device_type, ads.settings,
                                 RO(s, 3, v), WO(s, 4))
              c == ADS1x1x_singleShot(b, RO(s, 5, v), WO(s, 6))
              m == IF Failed(a) THEN a ELSE IF Failed(b) THEN b ELSE c
          IN  /\ ads' = [ads EXCEPT !.error = m.error,
                                    !.state = IF Failed(m) THEN "WAIT_BEGIN" ELSE "IDLE",
                                    !.latest_request_time =
                                        IF Failed(m) THEN @ ELSE U32(0, 0)]
              /\ call' = Returned("begin", "void", m.bus)
    /\ wire' = TRUE
    /\ UNCHANGED <<driver, dps>>

\* update() with millis() reading `millis`
ADS1x1x_updateCall(millis) ==
    /\ driver = "ADS1x1x"
    /\ call.pc = "caller"
    /\ CASE ads.state = "BUSY" ->
              /\ ads' = IF GreaterEq32(Sub32(millis, ads.latest_request_time),
                                       getConversionDelay(ads.settings.data_rate))
                        THEN [ads EXCEPT !.state = "COMPLETE",
                                         !.latest_request_time = U32(0, 0)]
                        ELSE ads
              /\ call' = WithArgs(Returned("update", "void", NoEvents),
                                  [millis |-> millis])
         [] ads.state = "COMPLETE" ->
              \E r \in ReadOutcomes(ConversionSamples) :
                 LET a == read(Ctx(ads.error, NoEvents),
                               ADS1x1x_Register.CONVERSION_REGISTER, 2, r)
                 IN  /\ ads' = [ads EXCEPT !.error = a.error,
                                   !.values = ADS1x1x_convert(ads.device_type,
                                                              ads.settings, a.dst),
                                   !.state = "AVAILABLE"]
                     /\ call' = Returned("update", "void", a.bus)
         [] ads.state = "ERROR" ->
              /\ ads' = [ads EXCEPT !.state = "IDLE"]
              /\ call' = WithArgs(Returned("update", "void", NoEvents),
                                  [state |-> ads.state])
         [] OTHER ->
              /\ ads' = ads
              /\ call' = Returned("update", "void", NoEvents)
    /\ UNCHANGED <<driver, dps, wire>>

ADS1x1x_update == \E millis \in UpdateTimeSamples : ADS1x1x_updateCall(millis)

ADS1x1x_end ==
    /\ driver = "ADS1x1x"
    /\ call.pc = "caller"
    /\ IF ads.state = "WAIT_BEGIN"
       THEN /\ call' = Returned("end", "void", NoEvents)
            /\ UNCHANGED <<ads, wire>>
       ELSE /\ call' = Returned("end", "void", <<Ev("Wire.end", -1, <<>>)>>)
            /\ wire' = FALSE
            /\ ads' = [ads EXCEPT !.state = "WAIT_BEGIN"]
    /\ UNCHANGED <<driver, dps>>

ADS1x1x_requestCall(channels, configs) ==
    /\ driver = "ADS1x1x"
    /\ call.pc = "caller"
    /\ \E channel_config \in channels :
          IF ads.state # "IDLE"
          THEN /\ ads' = [ads EXCEPT !.error = Result.FAILED_BUSY]
               /\ call' = WithArgs(Returned("request", Result.FAILED_BUSY, NoEvents),
                                   [channel_config |-> channel_config])
          ELSE \E r \in ReadOutcomesUnread(configs, <<0, 0>>), w \in WriteOutcomes,
                  millis \in RequestTimeSamples :
                  LET a == read(Ctx(ads.error, NoEvents),
                                ADS1x1x_Register.CONFIG_REGISTER, 2, r)
                      b == write(a, ADS1x1x_Register.CONFIG_REGISTER,
                                 ADS1x1x_startWord(a.dst, channel_config), w)
                      m == IF Failed(a) THEN a ELSE b
                  IN  /\ ads' = IF Failed(m) THEN [ads EXCEPT !.error = m.error]
                                ELSE [ads EXCEPT !.error = m.error, !.state = "BUSY",
                                                 !.latest_request_time = millis]
                      /\ call' = WithArgs(Returned("request",
                                              IF Failed(m) THEN m.error
                                              ELSE Result.SUCCESS, m.bus),
                                          [channel_config |-> channel_config])
    /\ UNCHANGED <<driver, dps, wire>>

ADS1x1x_request == ADS1x1x_requestCall(ChannelSamples, ConfigSamples)

ADS1x1x_read ==
    /\ driver = "ADS1x1x"
    /\ call.pc = "caller"
    /\ IF ads.state # "AVAILABLE"
       THEN /\ ads' = [ads EXCEPT !.error = Result.FAILED_BUSY]
            /\ call' = Returned("read", Result.FAILED_BUSY, NoEvents)
       ELSE /\ ads' = [ads EXCEPT !.state = "IDLE"]
            /\ call' = [Returned("read", Result.SUCCESS, NoEvents) EXCEPT
                            !.out.voltage = ads.values.voltage]
    /\ UNCHANGED <<driver, dps, wire>>

ADS1x1x_available ==
    /\ driver = "ADS1x1x"
    /\ call.pc = "caller"
    /\ call' = Returned("available", IF ads.state = "AVAILABLE" THEN "true" ELSE "false",
                        NoEvents)
    /\ UNCHANGED <<driver, dps, ads, wire>>

ADS1x1x_setSettings ==
    /\ driver = "ADS1x1x"
    /\ call.pc = "caller"
    /\ \E settings \in ADS1x1x_SettingsSamples :
          /\ ads' = [ads EXCEPT !.settings = settings]
          /\ call' = WithArgs(Returned("setSettings", "void", NoEvents),
                              [settings |-> settings])
    /\ UNCHANGED <<driver, dps, wire>>

ADS1x1x_setAddress ==
    /\ driver = "ADS1x1x"
    /\ call.pc = "caller"
    /\ \E address \in ADS1x1x_AddressSamples :
          /\ ads' = [ads EXCEPT !.address = address]
          /\ call' = WithArgs(Returned("setAddress", "void", NoEvents),
                              [address |-> address])
    /\ UNCHANGED <<driver, dps, wire>>

ADS1x1x_Next ==
    \/ ADS1x1x_setup
    \/ ADS1x1x_begin
    \/ ADS1x1x_update
    \/ ADS1x1x_end
    \/ ADS1x1x_request
    \/ ADS1x1x_read
    \/ ADS1x1x_available
    \/ ADS1x1x_setSettings
    \/ ADS1x1x_setAddress

\* ------------------------------------------------------------ the sketch
\* The sketch owns one driver object, of either class.  _error of ADS1x1x is
\* not set by its constructor.
Init ==
    /\ \/ /\ driver = "DPS310"
          /\ ads = ADS1x1x_Init(Result.FAILED_UNKNOWN)
       \/ /\ driver = "ADS1x1x"
          /\ \E error \in ResultSet : ads = ADS1x1x_Init(error)
    /\ dps = DPS310_Init
    /\ wire = FALSE
    /\ call = Returned("none", "void", NoEvents)

Next == DPS310_Next \/ ADS1x1x_Next

Spec == Init /\ [][Next]_vars


\* ------------------------------------------------------------ properties
\* The driver object of the sketch, its state and its latest values
Device == IF driver = "DPS310" THEN dps ELSE ads

State == Device.state

Values == Device.values

\* A step is a call of `op` that has returned
Did(op) == call'.op = op /\ call'.pc = "caller" /\ call.pc = "caller"

\* C1: request() called in any state other than IDLE returns FAILED_BUSY,
\* performs no bus transaction and leaves the state unchanged.
C1_RequestWhenNotIdle ==
    [][(Did("request") /\ State # "IDLE") =>
          /\ call'.ret = Result.FAILED_BUSY
          /\ call'.bus = NoEvents
          /\ wire' = wire
          /\ State' = State]_vars

C1_Witness ==
    /\ call.op = "request"
    /\ call.ret = Result.FAILED_BUSY
    /\ State \in {"PRES_BUSY", "BUSY"}

\* C2: read() called in any state other than AVAILABLE returns FAILED_BUSY,
\* does not write its output arguments and leaves the state and the latest
\* values unchanged.
C2_ReadWhenNotAvailable ==
    [][(Did("read") /\ State # "AVAILABLE") =>
          /\ call'.ret = Result.FAILED_BUSY
          /\ call'.out = Unwritten
          /\ State' = State
          /\ Values' = Values]_vars

C2_Witness ==
    /\ call.op = "read"
    /\ call.ret = Result.FAILED_BUSY
    /\ call.out = Unwritten
    /\ State \in {"PRES_COMPLETE", "COMPLETE"}

\* C3: read() called in AVAILABLE returns SUCCESS, copies the latest values to
\* the output arguments and moves the state to IDLE, so that a read() right
\* after it returns FAILED_BUSY.
C3_ReadWhenAvailable ==
    [][/\ (Did("read") /\ State = "AVAILABLE") =>
             /\ call'.ret = Result.SUCCESS
             /\ State' = "IDLE"
             /\ Values' = Values
             /\ IF driver = "DPS310"
                THEN /\ call'.out.temperature = dps.values.temperature
                     /\ call'.out.pressure = dps.values.pressure
                ELSE call'.out.voltage = ads.values.voltage
       /\ (Did("read") /\ call.op = "read" /\ call.ret = Result.SUCCESS) =>
             call'.ret = Result.FAILED_BUSY]_vars

C3_Witness ==
    /\ call.op = "read"
    /\ call.ret = Result.SUCCESS
    /\ State = "IDLE"
    /\ call.out # Unwritten

\* C4: available() returns true exactly when the state is AVAILABLE and
\* changes nothing: no state, no value, no error, no bus transaction.
C4_AvailablePure ==
    [][Did("available") =>
          /\ call'.ret = (IF State = "AVAILABLE" THEN "true" ELSE "false")
          /\ call'.bus = NoEvents
          /\ UNCHANGED <<driver, dps, ads, wire>>]_vars

C4_Witness ==
    /\ call.op = "available"
    /\ call.ret = "true"
    /\ State = "AVAILABLE"


\* C5: setup(address, settings) may be called in any state; afterwards the
\* state is WAIT_BEGIN, the stored address and settings are the arguments, and
\* the call has made no bus operation (open, close, read or write).
C5_Setup ==
    [][Did("setup") =>
          /\ State' = "WAIT_BEGIN"
          /\ Device'.address = call'.args.address
          /\ Device'.settings = call'.args.settings
          /\ call'.bus = NoEvents
          /\ wire' = wire]_vars

C5_Witness ==
    /\ call.op = "setup"
    /\ State = "WAIT_BEGIN"
    /\ wire
    /\ dps.settings # DPS310_Init.settings
    /\ dps.settings = call.args.settings

\* C6: end() called in WAIT_BEGIN does nothing (no bus close, nothing
\* changed); called in any other state it closes the bus once and sets the
\* state to WAIT_BEGIN; so an end() after an end() closes nothing more.
C6_EndIdempotent ==
    [][Did("end") =>
          /\ IF State = "WAIT_BEGIN"
             THEN /\ call'.bus = NoEvents
                  /\ UNCHANGED <<driver, dps, ads, wire>>
             ELSE /\ call'.bus = <<Ev("Wire.end", -1, <<>>)>>
                  /\ ~wire'
                  /\ State' = "WAIT_BEGIN"
          /\ call.op = "end" =>
                /\ call'.bus = NoEvents
                /\ UNCHANGED <<driver, dps, ads, wire>>]_vars

C6_Witness ==
    /\ call.op = "end"
    /\ call.bus = <<Ev("Wire.end", -1, <<>>)>>
    /\ State = "WAIT_BEGIN"
    /\ ~wire

\* The transactions of a trace that did not go through
Lost(e) == e.op \in {"no_writer", "no_reader"}

BusOk(bus) == \A i \in 1 .. Len(bus) : ~Lost(bus[i])

\* The product id register has been read as the genuine id 0x10
GenuineId(bus) ==
    \E i \in 1 .. Len(bus) :
       bus[i] = Ev("read", DPS310_Register.PRODUCT_ID, <<16>>)

\* Every step of the initialization has succeeded
AllStepsSucceeded(bus) == BusOk(bus) /\ (driver = "DPS310" => GenuineId(bus))

BeginStarts == call.pc = "caller" /\ call'.op = "begin"

BeginReturned == call.op = "begin" /\ call.pc = "caller"

\* C7: begin() may be called in any state and again; called in a state other
\* than WAIT_BEGIN it first performs end() (closing the bus and dropping the
\* measurement in flight or AVAILABLE), then opens the bus; when every
\* initialization step succeeds the state after begin() is IDLE.
C7_Begin ==
    [][/\ BeginStarts =>
             /\ IF State # "WAIT_BEGIN"
                THEN /\ call'.bus[1] = Ev("Wire.end", -1, <<>>)
                     /\ call'.bus[2] = Ev("Wire.begin", -1, <<>>)
                ELSE call'.bus[1] = Ev("Wire.begin", -1, <<>>)
             /\ State' \in {"WAIT_BEGIN", "IDLE"}
             /\ wire'
       /\ (BeginReturned' /\ AllStepsSucceeded(call'.bus)) => State' = "IDLE"]_vars

C7_Witness ==
    /\ driver = "DPS310"
    /\ BeginReturned
    /\ call.bus[1] = Ev("Wire.end", -1, <<>>)
    /\ AllStepsSucceeded(call.bus)
    /\ State = "IDLE"

IsCoefficientRegister(reg) ==
    reg \in DPS310_Register.C0_MSB .. DPS310_Register.C30_LSB

\* C8: if a register read or write fails during begin(), no later
\* initialization step is started (the trace ends with the failed transaction,
\* or, the 18 coefficient reads being one step, with coefficient reads) and the
\* state after begin() is WAIT_BEGIN; begin() leaves the state IDLE only when
\* every step succeeded.
C8_BeginFailure ==
    BeginReturned =>
       /\ ~BusOk(call.bus) =>
             /\ State = "WAIT_BEGIN"
             /\ \A i \in 1 .. Len(call.bus) : \A j \in (i + 1) .. Len(call.bus) :
                   Lost(call.bus[i]) =>
                      /\ driver = "DPS310"
                      /\ IsCoefficientRegister(call.bus[i].reg)
                      /\ IsCoefficientRegister(call.bus[j].reg)
       /\ State = "IDLE" => AllStepsSucceeded(call.bus)

C8_Witness ==
    /\ driver = "DPS310"
    /\ BeginReturned
    /\ State = "WAIT_BEGIN"
    /\ Len(call.bus) > 4
    /\ call.bus[Len(call.bus)] = Ev("no_writer", DPS310_Register.CFG_REG, <<>>)

\* The product id read failed or delivered another value than 0x10
BadId(bus) ==
    \E i \in 1 .. Len(bus) :
       /\ bus[i].reg = DPS310_Register.PRODUCT_ID
       /\ \/ Lost(bus[i])
          \/ bus[i].op = "read" /\ bus[i].data # <<16>>

\* C9: DPS310 begin(): if the product id read fails or returns another value
\* than 0x10, begin() returns before the soft reset command is written, no
\* register is written at all, and the state after begin() is WAIT_BEGIN.
C9_BadProductId ==
    (driver = "DPS310" /\ call.op = "begin" /\ BadId(call.bus)) =>
       /\ call.pc = "caller"
       /\ State = "WAIT_BEGIN"
       /\ \A i \in 1 .. Len(call.bus) :
             /\ call.bus[i].reg \in {-1, DPS310_Register.PRODUCT_ID}
             /\ call.bus[i].op = "write" => call.bus[i].data = <<>>

C9_Witness ==
    /\ driver = "DPS310"
    /\ BeginReturned
    /\ call.bus[Len(call.bus)] = Ev("read", DPS310_Register.PRODUCT_ID, <<0>>)
    /\ State = "WAIT_BEGIN"

\* The status register has been read with `bit` set
Ready(bus, bit) ==
    \E i \in 1 .. Len(bus) :
       /\ bus[i].op = "read"
       /\ bus[i].reg = DPS310_Register.MEAS_CFG
       /\ hasBitSet(bus[i].data[1], bit)

\* C10: DPS310, with every bus transaction succeeding and each ready bit set
\* when polled: request() in IDLE leaves TEMP_BUSY and the update() calls after
\* it leave TEMP_COMPLETE, PRES_BUSY, PRES_COMPLETE, AVAILABLE, one transition
\* per call; in every run AVAILABLE is entered only from PRES_COMPLETE,
\* PRES_BUSY only from TEMP_COMPLETE and TEMP_BUSY only by a successful
\* request().
C10_HappyPath ==
    [][driver = "DPS310" =>
          /\ (Did("request") /\ State = "IDLE" /\ BusOk(call'.bus)) =>
                State' = "TEMP_BUSY" /\ call'.ret = Result.SUCCESS
          /\ (Did("update") /\ BusOk(call'.bus)) =>
                /\ (State = "TEMP_BUSY" /\ Ready(call'.bus, MEAS_CFG.TMP_RDY)) =>
                      State' = "TEMP_COMPLETE"
                /\ State = "TEMP_COMPLETE" => State' = "PRES_BUSY"
                /\ (State = "PRES_BUSY" /\ Ready(call'.bus, MEAS_CFG.PRS_RDY)) =>
                      State' = "PRES_COMPLETE"
                /\ State = "PRES_COMPLETE" => State' = "AVAILABLE"
          /\ (State' = "AVAILABLE" /\ State # "AVAILABLE") =>
                Did("update") /\ State = "PRES_COMPLETE"
          /\ (State' = "PRES_BUSY" /\ State # "PRES_BUSY") =>
                Did("update") /\ State = "TEMP_COMPLETE"
          /\ (State' = "TEMP_BUSY" /\ State # "TEMP_BUSY") =>
                Did("request") /\ call'.ret = Result.SUCCESS /\ State = "IDLE"]_vars

C10_Witness ==
    /\ driver = "DPS310"
    /\ call.op = "update"
    /\ Len(call.bus) = 6
    /\ BusOk(call.bus)
    /\ State = "AVAILABLE"


\* ------------------------------------------------------------ ADS1x1x timing
\* The data rates of each variant
DataRatesOf(device_type) ==
    IF device_type = DeviceType.ADS101x
    THEN {DataRate.DR_0128SPS, DataRate.DR_0250SPS, DataRate.DR_0490SPS,
          DataRate.DR_0920SPS, DataRate.DR_1600SPS, DataRate.DR_2400SPS,
          DataRate.DR_3300SPS}
    ELSE {DataRate.DR_0008SPS, DataRate.DR_0016SPS, DataRate.DR_0032SPS,
          DataRate.DR_0064SPS, DataRate.DR_0128SPS, DataRate.DR_0250SPS,
          DataRate.DR_0475SPS, DataRate.DR_0860SPS}

\* Milliseconds between request() and update(): around every conversion delay
ElapsedSamples == {0, 1, 2, 3, 4, 7, 8, 15, 16, 31, 32, 62, 63, 124, 125, 126}

\* The readings of millis() in update(), request() having seen 3 or 2^32 - 4
TimingSamples == {U32(0, 3 + d) : d \in ElapsedSamples}

\* A sketch that sets any data rate up and measures
Timing_setup ==
    \E address \in ADS1x1x_AddressSamples, device_type \in ADS1x1x_DeviceTypeSamples :
       \E data_rate \in DataRatesOf(device_type) :
          ADS1x1x_setupCall(address, device_type,
                            ADS1x1x_Settings(ChannelConfig.AIN0_AIN1,
                                             FullScaleRange.FSR_2048mV, data_rate))

Timing_update == \E millis \in TimingSamples : ADS1x1x_updateCall(millis)

InitTiming == Init /\ driver = "ADS1x1x"

NextTiming == Timing_setup \/ ADS1x1x_begin \/ ADS1x1x_request \/ Timing_update

SpecTiming == InitTiming /\ [][NextTiming]_vars

\* ceil(1000 / rate_sps)
CeilPeriod(rate_sps) ==
    CHOOSE d \in 1 .. 1000 : d * rate_sps >= 1000 /\ (d - 1) * rate_sps < 1000

\* C11: ADS1x1x, after a successful request() at clock value t0: an update()
\* in BUSY at clock value t >= t0 leaves the state BUSY when
\* t - t0 < ceil(1000 / rate_sps) and moves it to COMPLETE when
\* t - t0 >= ceil(1000 / rate_sps), for each data rate, and makes no bus
\* transaction.
C11_Timing ==
    [][(/\ driver = "ADS1x1x"
        /\ Did("update")
        /\ ads.state = "BUSY"
        /\ ads.latest_request_time[1] = 0
        /\ call'.args.millis[1] = 0
        /\ call'.args.millis[2] >= ads.latest_request_time[2]) =>
          /\ call'.bus = NoEvents
          /\ ads'.state =
                IF call'.args.millis[2] - ads.latest_request_time[2]
                      < CeilPeriod(ads.settings.data_rate)
                THEN "BUSY" ELSE "COMPLETE"]_vars

\* An update() 124 ms after the request leaves a conversion at 8 SPS BUSY
C11_Witness ==
    /\ driver = "ADS1x1x"
    /\ call.op = "update"
    /\ ads.state = "BUSY"
    /\ ads.settings.data_rate = DataRate.DR_0008SPS
    /\ ads.latest_request_time = U32(0, 3)
    /\ call.args = [millis |-> U32(0, 127)]


\* The states of a measurement cycle under way
InFlight ==
    IF driver = "DPS310"
    THEN {"TEMP_BUSY", "TEMP_COMPLETE", "TEMP_ERROR", "PRES_BUSY", "PRES_COMPLETE",
          "PRES_ERROR"}
    ELSE {"BUSY", "COMPLETE", "ERROR"}

\* C12: end(), setup() and an unsuccessful begin() leave the state WAIT_BEGIN,
\* whatever was AVAILABLE before; WAIT_BEGIN is left only by a successful
\* begin(), a cycle is started only by a successful request() in IDLE,
\* AVAILABLE is entered only by update() at the end of a cycle, and until then
\* every read() returns FAILED_BUSY and writes nothing.
C12_ReadAfterEnd ==
    [][/\ (Did("end") \/ Did("setup") \/ (BeginReturned' /\ State' # "IDLE")) =>
             State' = "WAIT_BEGIN"
       /\ (State = "WAIT_BEGIN" /\ State' # "WAIT_BEGIN") =>
             BeginReturned' /\ State' = "IDLE" /\ AllStepsSucceeded(call'.bus)
       /\ (State \notin InFlight /\ State' \in InFlight) =>
             Did("request") /\ call'.ret = Result.SUCCESS /\ State = "IDLE"
       /\ (State # "AVAILABLE" /\ State' = "AVAILABLE") =>
             Did("update") /\ State \in InFlight
       /\ (Did("read") /\ State # "AVAILABLE") =>
             call'.ret = Result.FAILED_BUSY /\ call'.out = Unwritten]_vars

\* read() after end(), a pressure having been measured before
C12_Witness ==
    /\ driver = "DPS310"
    /\ call.op = "read"
    /\ call.ret = Result.FAILED_BUSY
    /\ State = "WAIT_BEGIN"
    /\ ~wire
    /\ dps.values.pressure # DPS310_ZeroValues.pressure


ErrorStates == {"TEMP_ERROR", "PRES_ERROR", "ERROR"}

\* update() ends the cycle: AVAILABLE, or IDLE from an error state
CycleEnds ==
    /\ Did("update")
    /\ \/ State' = "AVAILABLE"
       \/ State \in ErrorStates /\ State' = "IDLE"

\* C13: once request() has succeeded, the cycle leaves its in-flight states
\* only by reaching AVAILABLE or by an error state that returns to IDLE, or
\* else by end(), begin() or setup(); request(), read(), available() and the
\* setters never move the device out of an in-flight state.
C13_CycleLeft ==
    [][(State \in InFlight /\ State' \notin InFlight) =>
          CycleEnds \/ Did("end") \/ BeginStarts \/ Did("setup")]_vars

\* C13 as stated: end() and begin() are the only operations that abandon a
\* cycle.
C13_AsStated ==
    [][(State \in InFlight /\ State' \notin InFlight) =>
          CycleEnds \/ Did("end") \/ BeginStarts]_vars

\* The update() that ends a cycle and leaves its result AVAILABLE
C13_Witness ==
    /\ call.op = "update"
    /\ call.bus # NoEvents
    /\ State = "AVAILABLE"


\* C14: a bus transaction that cannot get its writer or reader leaves
\* FAILED_NOT_RESPONDING as the error of the driver, and a request() in IDLE
\* whose register read or write fails returns FAILED_NOT_RESPONDING and
\* leaves the state IDLE: the failed transaction is its last one, and the
\* register is written only after it has been read.
C14_NotResponding ==
    [][/\ ~BusOk(call'.bus) => Device'.error = Result.FAILED_NOT_RESPONDING
       /\ (Did("request") /\ State = "IDLE" /\ ~BusOk(call'.bus)) =>
             /\ call'.ret = Result.FAILED_NOT_RESPONDING
             /\ State' = "IDLE"
             /\ \A i \in 1 .. Len(call'.bus) :
                   /\ Lost(call'.bus[i]) => i = Len(call'.bus)
                   /\ (call'.bus[i].op = "write" /\ call'.bus[i].data # <<>>) =>
                         \E j \in 1 .. (i - 1) : call'.bus[j].op = "read"]_vars

\* A request() of the ADS1x1x that found no reader
C14_Witness ==
    /\ driver = "ADS1x1x"
    /\ call.op = "request"
    /\ call.ret = Result.FAILED_NOT_RESPONDING
    /\ State = "IDLE"
    /\ call.bus = <<Ev("write", ADS1x1x_Register.CONFIG_REGISTER, <<>>),
                    Ev("no_reader", ADS1x1x_Register.CONFIG_REGISTER, <<2>>)>>


\* getSettings(): a reference to the stored settings
getSettings(device) == device.settings

\* C15: setSettings(s) followed by getSettings() gives s, in every state
\* (before begin() too), and setSettings changes nothing else: not the state,
\* not the bus.
C15_SettingsRoundTrip ==
    [][Did("setSettings") =>
          /\ getSettings(Device') = call'.args.settings
          /\ Device' = [Device EXCEPT !.settings = call'.args.settings]
          /\ call'.bus = NoEvents
          /\ wire' = wire]_vars

\* setSettings() before setup() and begin(), and in the middle of a cycle
C15_Witness ==
    /\ call.op = "setSettings"
    /\ \/ /\ driver = "ADS1x1x"
          /\ State = "WAIT_SETUP"
          /\ getSettings(ads) # ADS1x1x_DefaultSettings
       \/ /\ driver = "DPS310"
          /\ State = "PRES_BUSY"
          /\ getSettings(dps) # DPS310_Init.settings


\* ---------------------------------------------------- twosComplement alone
\* The bit lengths the driver decodes: 12, 16, 20 and 24 bit fields
BitLengthSamples == {12, 16, 20, 24}

MaxEdge == 8

\* N-bit patterns next to zero, next to the sign change and next to all ones
PatternSamples(bit_length) ==
    LET half == Pow2(bit_length - 1)
        top  == Pow2(bit_length) - 1
    IN  (0 .. MaxEdge) \cup ((half - MaxEdge) .. (half + MaxEdge))
           \cup ((top - MaxEdge) .. top)

InitTwos ==
    /\ driver = "DPS310"
    /\ dps = DPS310_Init
    /\ ads = ADS1x1x_Init(Result.FAILED_UNKNOWN)
    /\ wire = FALSE
    /\ \E bit_length \in BitLengthSamples :
          \E raw_value \in PatternSamples(bit_length) :
             call = WithArgs(Returned("none", "void", NoEvents),
                             [raw_value |-> raw_value, bit_length |-> bit_length])

Twos_apply ==
    /\ call.op = "none"
    /\ call' = WithArgs(Returned("twosComplement",
                                 twosComplement(call.args.raw_value, call.args.bit_length),
                                 NoEvents),
                        call.args)
    /\ UNCHANGED <<driver, dps, ads, wire>>

NextTwos == Twos_apply

SpecTwos == InitTwos /\ [][NextTwos]_vars

\* The N-bit pattern of a signed value
PatternOf(v, bit_length) == v % Pow2(bit_length)

\* C16: twosComplement(raw, N) is the inverse of the N-bit two's-complement
\* encoding: the result v lies in -2^(N-1) .. 2^(N-1)-1 and its N-bit pattern
\* is raw, a pattern with the top bit set decodes to pattern - 2^N, and
\* 0x800000 with 24 bits decodes to -8388608.
C16_TwosComplement ==
    call.op = "twosComplement" =>
       LET raw == call.args.raw_value
           N   == call.args.bit_length
       IN  /\ call.ret >= -Pow2(N - 1)
           /\ call.ret < Pow2(N - 1)
           /\ PatternOf(call.ret, N) = raw
           /\ raw >= Pow2(N - 1) => call.ret = raw - Pow2(N)
           /\ raw < Pow2(N - 1) => call.ret = raw
           /\ (raw = 8388608 /\ N = 24) => call.ret = -8388608

\* 0x800000 decoded with bit_length 24
C16_Witness ==
    /\ call.op = "twosComplement"
    /\ call.args = [raw_value |-> 8388608, bit_length |-> 24]
    /\ call.ret = -8388608


\* ------------------------------------------------- Result operators alone
MaxOperands == 3

\* The operands of an expression a op b op c, folded from the left as C++
\* does; call.ret is the value of the part already folded
InitResult ==
    /\ driver = "DPS310"
    /\ dps = DPS310_Init
    /\ ads = ADS1x1x_Init(Result.FAILED_UNKNOWN)
    /\ wire = FALSE
    /\ \E operands \in [1 .. MaxOperands -> ResultSet] :
          call = WithArgs(Returned("none", operands[1], NoEvents),
                          [lhs |-> operands[1], rhs |-> operands[1],
                           rest |-> [k \in 1 .. (MaxOperands - 1) |-> operands[k + 1]]])

Result_and ==
    /\ call.op # "operator!"
    /\ call.args.rest # <<>>
    /\ call' = WithArgs(Returned("operator&&",
                                 operatorAnd(call.ret, Head(call.args.rest)), NoEvents),
                        [lhs |-> call.ret, rhs |-> Head(call.args.rest),
                         rest |-> Tail(call.args.rest)])
    /\ UNCHANGED <<driver, dps, ads, wire>>

Result_or ==
    /\ call.op # "operator!"
    /\ call.args.rest # <<>>
    /\ call' = WithArgs(Returned("operator||",
                                 operatorOr(call.ret, Head(call.args.rest)), NoEvents),
                        [lhs |-> call.ret, rhs |-> Head(call.args.rest),
                         rest |-> Tail(call.args.rest)])
    /\ UNCHANGED <<driver, dps, ads, wire>>

Result_not ==
    /\ call.op # "operator!"
    /\ call' = WithArgs(Returned("operator!", operatorNot(call.ret), NoEvents),
                        [lhs |-> call.ret, rhs |-> call.ret, rest |-> <<>>])
    /\ UNCHANGED <<driver, dps, ads, wire>>

NextResult == Result_and \/ Result_or \/ Result_not

SpecResult == InitResult /\ [][NextResult]_vars

\* C17: a && b is SUCCESS exactly when both operands are SUCCESS, a || b is
\* SUCCESS exactly when at least one is, every other result is FAILED_UNKNOWN
\* whatever the failures of the operands were, and !a is true exactly when a
\* is not SUCCESS.
C17_Combinators ==
    /\ call.op = "operator&&" =>
          call.ret = IF call.args.lhs = Result.SUCCESS /\ call.args.rhs = Result.SUCCESS
                     THEN Result.SUCCESS ELSE Result.FAILED_UNKNOWN
    /\ call.op = "operator||" =>
          call.ret = IF call.args.lhs = Result.SUCCESS \/ call.args.rhs = Result.SUCCESS
                     THEN Result.SUCCESS ELSE Result.FAILED_UNKNOWN
    /\ call.op = "operator!" => call.ret = (call.args.lhs # Result.SUCCESS)

\* FAILED_BUSY && FAILED_NOT_RESPONDING is FAILED_UNKNOWN
C17_Witness ==
    /\ call.op = "operator&&"
    /\ call.args.lhs = Result.FAILED_BUSY
    /\ call.args.rhs = Result.FAILED_NOT_RESPONDING
    /\ call.ret = Result.FAILED_UNKNOWN


\* A read of one of the raw data registers PRS_B2 .. TMP_B0 was lost
RawReadLost(bus) ==
    \E i \in 1 .. Len(bus) :
       /\ Lost(bus[i])
       /\ bus[i].reg \in DPS310_Register.PRS_B2 .. DPS310_Register.TMP_B0

\* C18: DPS310: when a raw data register read fails in update() (TMP_B2,
\* TMP_B1, TMP_B0 in TEMP_COMPLETE; PRS_B2, PRS_B1, PRS_B0 in PRES_COMPLETE)
\* that update() leaves TEMP_ERROR or PRES_ERROR, the next update() returns to
\* IDLE, and so the cycle never becomes AVAILABLE.
C18_RawReadFailure ==
    [][(Did("update") /\ driver = "DPS310") =>
          /\ (State = "TEMP_COMPLETE" /\ RawReadLost(call'.bus)) => State' = "TEMP_ERROR"
          /\ (State = "PRES_COMPLETE" /\ RawReadLost(call'.bus)) => State' = "PRES_ERROR"
          /\ State \in {"TEMP_ERROR", "PRES_ERROR"} => State' = "IDLE"]_vars

\* C19: ADS1x1x: when the conversion register read fails in update() in
\* COMPLETE the state after that update() is ERROR, the next update() returns
\* to IDLE, and so the request never becomes AVAILABLE.
C19_ConversionReadFailure ==
    [][(Did("update") /\ driver = "ADS1x1x") =>
          /\ (State = "COMPLETE" /\ ~BusOk(call'.bus)) => State' = "ERROR"
          /\ State = "ERROR" => State' = "IDLE"]_vars

\* C20: DPS310: when the MEAS_CFG status read fails in update() the state
\* when update() returns is TEMP_ERROR (from TEMP_BUSY) or PRES_ERROR (from
\* PRES_BUSY), never TEMP_COMPLETE or PRES_COMPLETE.
C20_StatusReadFailure ==
    [][(Did("update") /\ driver = "DPS310" /\ ~BusOk(call'.bus)) =>
          /\ State = "TEMP_BUSY" => State' = "TEMP_ERROR"
          /\ State = "PRES_BUSY" => State' = "PRES_ERROR"]_vars


\* The last call was an update() that found the device in an error state
AfterErrorTick ==
    /\ call.op = "update"
    /\ call.args \in [state : ErrorStates]

\* C21: for both drivers an update() made in an error state (TEMP_ERROR,
\* PRES_ERROR, ERROR) leaves the state IDLE without a bus transaction and
\* changes nothing else, and the request() made next is not refused as busy.
C21_ErrorTick ==
    [][/\ (Did("update") /\ State \in ErrorStates) =>
             /\ Device' = [Device EXCEPT !.state = "IDLE"]
             /\ call'.bus = NoEvents
             /\ wire' = wire
       /\ AfterErrorTick => State = "IDLE"
       /\ (Did("request") /\ AfterErrorTick) =>
             /\ call'.ret # Result.FAILED_BUSY
             /\ call'.bus # NoEvents]_vars

\* update() has just left PRES_ERROR
C21_Witness ==
    /\ AfterErrorTick
    /\ call.args.state = "PRES_ERROR"
    /\ State = "IDLE"


\* ------------------------------------------------------------ the cycle, fair
\* The sketch that runs measurement cycles with the settings of the
\* constructor: once request() has started a cycle it only calls update()
\* from loop(), while the clock advances
NextCycle ==
    \/ State \notin InFlight /\ DPS310_begin
    \/ State \notin InFlight /\ DPS310_softReset
    \/ State \notin InFlight /\ DPS310_updateCoefficients
    \/ State \notin InFlight /\ DPS310_request
    \/ State \notin InFlight /\ DPS310_read
    \/ State \notin InFlight /\ DPS310_end
    \/ State \notin InFlight /\ ADS1x1x_begin
    \/ State \notin InFlight /\ ADS1x1x_request
    \/ State \notin InFlight /\ ADS1x1x_read
    \/ State \notin InFlight /\ ADS1x1x_end
    \/ DPS310_update
    \/ Timing_update

\* An update() whose bus transactions succeed and that moves the state
\* machine: the polled ready bit is read as set, the conversion delay has
\* elapsed, or the state needs no condition
UpdateProgress ==
    /\ State \in InFlight
    /\ DPS310_update \/ Timing_update
    /\ BusOk(call'.bus)
    /\ State' # State

\* update() keeps being called, the hardware eventually sets the ready bit it
\* is polled for and the clock keeps advancing
SpecCycle == Init /\ [][NextCycle]_vars /\ WF_vars(UpdateProgress)

\* C22: after a successful request(), with update() called again and again,
\* ready bits eventually set and the clock advancing: the device does not
\* stay in an in-flight or error state forever, it reaches AVAILABLE or IDLE;
\* and while every bus transaction succeeds update() never enters an error
\* state and never returns to IDLE, so the state it reaches is AVAILABLE.
C22_Liveness ==
    /\ (State \in InFlight) ~> (State \in {"AVAILABLE", "IDLE"})
    /\ [][(Did("update") /\ State \in (InFlight \ ErrorStates) /\ BusOk(call'.bus)) =>
             State' \in ((InFlight \ ErrorStates) \cup {"AVAILABLE"})]_vars

\* The ADS1x1x has become AVAILABLE by an update() whose read succeeded
C22_Witness ==
    /\ driver = "ADS1x1x"
    /\ call.op = "update"
    /\ call.bus # NoEvents
    /\ BusOk(call.bus)
    /\ State = "AVAILABLE"


\* States in which no measurement is running
QuietStates == {"WAIT_SETUP", "WAIT_BEGIN", "IDLE", "AVAILABLE"}

\* C23: update() called in WAIT_SETUP, WAIT_BEGIN, IDLE or AVAILABLE changes
\* nothing (state, latest values, error) and issues no bus transaction, so an
\* AVAILABLE result stays available until read(), end(), begin() or setup()
\* is called.
C23_UpdateQuiet ==
    [][/\ (Did("update") /\ State \in QuietStates) =>
             /\ Device' = Device
             /\ call'.bus = NoEvents
             /\ wire' = wire
       /\ (State = "AVAILABLE" /\ State' # "AVAILABLE") =>
             call'.op \in {"read", "end", "begin", "setup"}]_vars

\* update() has been called on a result that is still to be read
C23_Witness ==
    /\ call.op = "update"
    /\ call.bus = NoEvents
    /\ State = "AVAILABLE"
    /\ driver = "DPS310"


\* C24: the nine DPS310 calibration coefficients change only in
\* updateCoefficients(), which runs only inside begin(); setup(), request(),
\* update(), read(), end(), available() and the setters leave them as they
\* are, in every state.
C24_CoefficientsFrame ==
    [][/\ dps'.coef # dps.coef =>
             /\ call.pc = "updateCoefficients"
             /\ call'.op = "begin"
       /\ call'.op \in {"setup", "request", "update", "read", "end", "available",
                        "setSettings", "setAddress"} => dps'.coef = dps.coef]_vars

\* A cycle has been run and read with the coefficients begin() has stored
C24_Witness ==
    /\ driver = "DPS310"
    /\ call.op = "read"
    /\ call.ret = Result.SUCCESS
    /\ dps.coef # ZeroCoef


\* A read of one of the 18 coefficient registers was lost
CoefReadLost(bus) ==
    \E i \in 1 .. Len(bus) : Lost(bus[i]) /\ IsCoefficientRegister(bus[i].reg)

\* C25: DPS310 updateCoefficients(): when one of the 18 coefficient register
\* reads fails the whole read is aborted: no coefficient register after the
\* failed one is read, none of the nine coefficients is modified, the call
\* returns FAILED_NOT_RESPONDING and begin() does not reach IDLE.
C25_CoefficientReadAborted ==
    [][(call.pc = "updateCoefficients" /\ CoefReadLost(call'.bus)) =>
          /\ \A i \in 1 .. Len(call'.bus) : Lost(call'.bus[i]) => i = Len(call'.bus)
          /\ dps'.coef = dps.coef
          /\ dps'.error = Result.FAILED_NOT_RESPONDING
          /\ call'.pc = "caller"
          /\ dps'.state # "IDLE"]_vars


\* ------------------------------------------------------------ begin(), fair
\* The sketch calls begin() and end() on the DPS310; the processor keeps
\* executing the poll loops of softReset() and updateCoefficients()
NextBegin ==
    \/ DPS310_begin
    \/ DPS310_softReset
    \/ DPS310_updateCoefficients
    \/ DPS310_end

\* One more iteration of a poll loop: MEAS_CFG is read and the ready bit the
\* loop waits for (SENSOR_RDY in softReset(), COEF_RDY in updateCoefficients())
\* is not set
PollAgain ==
    /\ driver = "DPS310"
    /\ call.pc \in {"softReset", "updateCoefficients"}
    /\ \E poll \in [how : {"ok"}, val : MeasCfgSamples] :
          LET a == read(Ctx(dps.error, call.bus), DPS310_Register.MEAS_CFG, 1, poll)
          IN  /\ ~hasBitSet(a.dst, IF call.pc = "softReset" THEN MEAS_CFG.SENSOR_RDY
                                   ELSE MEAS_CFG.COEF_RDY)
              /\ call' = Call("begin", "pending", call.bus, call.pc,
                              IF call.polls < MaxPolls THEN call.polls + 1
                              ELSE call.polls)
    /\ UNCHANGED <<driver, dps, ads, wire>>

\* The processor does not stop inside a poll loop
SpecBegin == Init /\ [][NextBegin]_vars /\ WF_vars(PollAgain)

\* C26: DPS310 begin() always terminates: softReset() and
\* updateCoefficients() poll their ready bit a bounded number of times, so a
\* begin() that has been called returns, also when every read is answered and
\* the ready bit is never set.
C26_BeginTerminates ==
    (driver = "DPS310" /\ call.pc # "caller") ~> (call.pc = "caller")

\* ------------------------------------------------ the shift bits of CFG_REG
\* What CFG_REG may hold before the driver rewrites it
CfgRegSamples == {0, 4, 8, 12, 243, 255}

PrecisionSet == {Precision[k] : k \in DOMAIN Precision}

\* The driver set up with any pair of precisions, about to apply them
InitShift ==
    /\ driver = "DPS310"
    /\ \E pressure_precision \in PrecisionSet, temperature_precision \in PrecisionSet :
          dps = [DPS310_Init EXCEPT
                    !.state = "WAIT_BEGIN",
                    !.settings = [DPS310_Settings("DEFAULT") EXCEPT
                                     !.pressure_precision = pressure_precision,
                                     !.temperature_precision = temperature_precision]]
    /\ ads = ADS1x1x_Init(Result.FAILED_UNKNOWN)
    /\ wire = TRUE
    /\ call = Returned("none", "void", NoEvents)

Shift_applyPressureSettings ==
    /\ call.op = "none"
    /\ \E cfg_reg \in CfgRegSamples :
          LET m == applyPressureSettings(Ctx(dps.error, NoEvents), dps.settings,
                                         [how |-> "ok", val |-> <<0>>], "ok",
                                         [how |-> "ok", val |-> <<cfg_reg>>], "ok")
          IN  /\ dps' = [dps EXCEPT !.error = m.error]
              /\ call' = WithArgs(Returned("applyPressureSettings", m.res, m.bus),
                                  [cfg_reg |-> cfg_reg])
    /\ UNCHANGED <<driver, ads, wire>>

Shift_applyTemperatureSettings ==
    /\ call.op = "none"
    /\ \E cfg_reg \in CfgRegSamples :
          LET m == applyTemperatureSettings(Ctx(dps.error, NoEvents), dps.settings,
                                            [how |-> "ok", val |-> <<0>>], "ok",
                                            [how |-> "ok", val |-> <<cfg_reg>>], "ok")
          IN  /\ dps' = [dps EXCEPT !.error = m.error]
              /\ call' = WithArgs(Returned("applyTemperatureSettings", m.res, m.bus),
                                  [cfg_reg |-> cfg_reg])
    /\ UNCHANGED <<driver, ads, wire>>

NextShift ==
    \/ Shift_applyPressureSettings
    \/ Shift_applyTemperatureSettings

SpecShift == InitShift /\ [][NextShift]_vars

\* The byte the call wrote to CFG_REG
WrittenCfgReg == call.bus[Len(call.bus)].data[1]

HighPrecisions ==
    {Precision.STANDARD_16X, Precision.HIGH_32X, Precision.HIGH_64X, Precision.HIGH_128X}

\* C27: the value applyPressureSettings() writes to CFG_REG has P_SHIFT set
\* exactly when the pressure precision is 16x, 32x, 64x or 128x, and the value
\* applyTemperatureSettings() writes has T_SHIFT set exactly when the
\* temperature precision is one of these, for all 8 precisions; the other
\* bits of the register are written back as they were read.
C27_ShiftBits ==
    /\ call.op = "applyPressureSettings" =>
          /\ call.bus[Len(call.bus)].op = "write"
          /\ call.bus[Len(call.bus)].reg = DPS310_Register.CFG_REG
          /\ hasBitSet(WrittenCfgReg, 2) <=> dps.settings.pressure_precision \in HighPrecisions
          /\ \A bit \in (0 .. 7) \ {2} :
                hasBitSet(WrittenCfgReg, bit) <=> hasBitSet(call.args.cfg_reg, bit)
    /\ call.op = "applyTemperatureSettings" =>
          /\ call.bus[Len(call.bus)].op = "write"
          /\ call.bus[Len(call.bus)].reg = DPS310_Register.CFG_REG
          /\ hasBitSet(WrittenCfgReg, 3) <=> dps.settings.temperature_precision \in HighPrecisions
          /\ \A bit \in (0 .. 7) \ {3} :
                hasBitSet(WrittenCfgReg, bit) <=> hasBitSet(call.args.cfg_reg, bit)

\* 16x pressure precision applied over a register that had P_SHIFT clear
C27_Witness ==
    /\ call.op = "applyPressureSettings"
    /\ dps.settings.pressure_precision = Precision.STANDARD_16X
    /\ call.args.cfg_reg = 8
    /\ WrittenCfgReg = 12

\* ------------------------------------------------ decoding the coefficients
\* Register bytes at the edges of the nibbles and of the sign bit
ByteSamples == {0, 1, 15, 16, 127, 128, 240, 255}

\* The 18 coefficient registers 0x10..0x21 filled with three bytes in turn, so
\* that the bytes of every field run through all the samples
CoefImage(x, y, z) == [i \in 1 .. 18 |-> <<x, y, z>>[((i - 1) % 3) + 1]]

InitCoef ==
    /\ driver = "DPS310"
    /\ dps = [DPS310_Init EXCEPT !.state = "WAIT_BEGIN"]
    /\ ads = ADS1x1x_Init(Result.FAILED_UNKNOWN)
    /\ wire = TRUE
    /\ \E x \in ByteSamples, y \in ByteSamples, z \in ByteSamples :
          call = WithArgs(Returned("none", "void", NoEvents), [bytes |-> CoefImage(x, y, z)])

\* The setters of updateCoefficients() applied to the bytes read
Coef_decode ==
    /\ call.op = "none"
    /\ dps' = [dps EXCEPT !.coef = decodeCoefficients(dps.coef, call.args.bytes)]
    /\ call' = WithArgs(Returned("updateCoefficients", Result.SUCCESS, NoEvents), call.args)
    /\ UNCHANGED <<driver, ads, wire>>

NextCoef == Coef_decode

SpecCoef == InitCoef /\ [][NextCoef]_vars

\* The signed value of an N-bit field
SignExtended(field, N) == IF field >= Pow2(N - 1) THEN field - Pow2(N) ELSE field

InSignedRange(v, N) == v >= -Pow2(N - 1) /\ v <= Pow2(N - 1) - 1

\* C28: from the 18 register bytes (b[1] is register 0x10), c0 is the
\* sign-extended 12-bit field of byte 0x10 and the high nibble of 0x11, c1
\* that of the low nibble of 0x11 and byte 0x12, c00 and c10 are the
\* sign-extended 20-bit fields that share byte 0x15, and c01, c11, c20, c21,
\* c30 are the sign-extended 16-bit big-endian pairs; every coefficient lies
\* in the signed range of its width.
C28_CoefficientDecoding ==
    call.op = "updateCoefficients" =>
       LET b == call.args.bytes
           c == dps.coef
       IN  /\ c.c0  = SignExtended(b[1] * 16 + (b[2] \div 16), 12)
           /\ c.c1  = SignExtended((b[2] % 16) * 256 + b[3], 12)
           /\ c.c00 = SignExtended(b[4] * 4096 + b[5] * 16 + (b[6] \div 16), 20)
           /\ c.c10 = SignExtended((b[6] % 16) * 65536 + b[7] * 256 + b[8], 20)
           /\ c.c01 = SignExtended(b[9] * 256 + b[10], 16)
           /\ c.c11 = SignExtended(b[11] * 256 + b[12], 16)
           /\ c.c20 = SignExtended(b[13] * 256 + b[14], 16)
           /\ c.c21 = SignExtended(b[15] * 256 + b[16], 16)
           /\ c.c30 = SignExtended(b[17] * 256 + b[18], 16)
           /\ InSignedRange(c.c0, 12) /\ InSignedRange(c.c1, 12)
           /\ InSignedRange(c.c00, 20) /\ InSignedRange(c.c10, 20)
           /\ InSignedRange(c.c01, 16) /\ InSignedRange(c.c11, 16)
           /\ InSignedRange(c.c20, 16) /\ InSignedRange(c.c21, 16)
           /\ InSignedRange(c.c30, 16)

\* Bytes 0x80, 0x0F, 0xF0 in turn: c0 is the most negative 12-bit value, c1
\* and c00 have their sign bit set and c10 is positive
C28_Witness ==
    /\ call.op = "updateCoefficients"
    /\ call.args.bytes = CoefImage(128, 15, 240)
    /\ dps.coef.c0 = -2048
    /\ dps.coef.c1 = -16
    /\ dps.coef.c00 = -524033
    /\ dps.coef.c10 = 32783

\* ------------------------------------------------ the ADS1x1x conversion
\* Contents of the conversion register, most significant byte first: 0x0000,
\* 0x0010, 0x3FF8, 0x7FF0, 0x7FFF, 0x8000, 0x8010, 0xFFF0, 0xFFFF
ConversionRegisterSamples ==
    {<<0, 0>>, <<0, 16>>, <<63, 248>>, <<127, 240>>, <<127, 255>>, <<128, 0>>,
     <<128, 16>>, <<255, 240>>, <<255, 255>>}

FullScaleRangeSet == {FullScaleRange[k] : k \in DOMAIN FullScaleRange}

\* A device of either type with any full-scale range whose conversion time
\* has passed
InitConversion ==
    /\ driver = "ADS1x1x"
    /\ dps = DPS310_Init
    /\ \E device_type \in ADS1x1x_DeviceTypeSamples, fsr \in FullScaleRangeSet :
          ads = [ADS1x1x_Init(Result.FAILED_UNKNOWN) EXCEPT
                    !.device_type = device_type,
                    !.settings = ADS1x1x_Settings(ChannelConfig.AIN0_AIN1, fsr,
                                                  DataRate.DR_0128SPS),
                    !.state = "COMPLETE"]
    /\ wire = TRUE
    /\ call = Returned("none", "void", NoEvents)

\* update() in COMPLETE with the conversion register read
Conversion_update ==
    /\ driver = "ADS1x1x"
    /\ call.pc = "caller"
    /\ ads.state = "COMPLETE"
    /\ \E v \in ConversionRegisterSamples :
          LET a == read(Ctx(ads.error, NoEvents), ADS1x1x_Register.CONVERSION_REGISTER, 2,
                        [how |-> "ok", val |-> v])
          IN  /\ ads' = [ads EXCEPT !.error = a.error,
                            !.values = ADS1x1x_convert(ads.device_type, ads.settings, a.dst),
                            !.state = "AVAILABLE"]
              /\ call' = WithArgs(Returned("update", "void", a.bus),
                                  [conv_reg |-> v[1] * 256 + v[2]])
    /\ UNCHANGED <<driver, dps, wire>>

NextConversion ==
    \/ Conversion_update
    \/ ADS1x1x_read

SpecConversion == InitConversion /\ [][NextConversion]_vars

AfterConversion == driver = "ADS1x1x" /\ call.op = "update" /\ ads.state = "AVAILABLE"

\* C29: after update() in COMPLETE the raw value is the conversion register
\* shifted right by 4 for the 12-bit variant and the register itself for the
\* 16-bit variant, and it lies in 0..0x7FF for the 12-bit variant and in
\* 0..0x7FFF for the 16-bit variant, whatever the register holds.
C29_RawDecoding ==
    AfterConversion =>
       IF ads.device_type = DeviceType.ADS101x
       THEN /\ ads.values.raw = call.args.conv_reg \div 16
            /\ ads.values.raw \in 0 .. 2047
       ELSE /\ ads.values.raw = call.args.conv_reg
            /\ ads.values.raw \in 0 .. 32767

\* C30: the voltage read() returns is floor(raw * FSR_mV / 0x7FF) for the
\* 12-bit variant and floor(raw * FSR_mV / 0x7FFF) for the 16-bit variant,
\* FSR_mV being the full-scale range of the settings, for every raw value
\* and each of the six ranges.
C30_VoltageScaling ==
    (driver = "ADS1x1x" /\ call.op = "read" /\ call.ret = Result.SUCCESS) =>
       LET full_code == IF ads.device_type = DeviceType.ADS101x THEN 2047 ELSE 32767
           product == ads.values.raw * ads.settings.full_scale_range
       IN  /\ ads.settings.full_scale_range \in {6144, 4096, 2048, 1024, 512, 256}
           /\ call.out.voltage * full_code <= product
           /\ product < (call.out.voltage + 1) * full_code

\* The 16-bit variant at 6144 mV with the register at 0x7FFF reads 6144
C30_Witness ==
    /\ driver = "ADS1x1x"
    /\ call.op = "read"
    /\ call.ret = Result.SUCCESS
    /\ ads.device_type = DeviceType.ADS111x
    /\ ads.settings.full_scale_range = FullScaleRange.FSR_6144mV
    /\ ads.values.raw = 32767
    /\ call.out.voltage = 6144

\* ------------------------------------------------ the word request() writes
ChannelConfigSet == {ChannelConfig[k] : k \in DOMAIN ChannelConfig}

\* Contents of the configuration register, most significant byte first:
\* 0x8583 (after reset), 0x0000, 0xFFFF, 0x7000, 0x0E1C, 0x71E3
ConfigWordSamples ==
    {<<133, 131>>, <<0, 0>>, <<255, 255>>, <<112, 0>>, <<14, 28>>, <<113, 227>>}

\* A device of either type that begin() has initialized
InitRequest ==
    /\ driver = "ADS1x1x"
    /\ dps = DPS310_Init
    /\ \E device_type \in ADS1x1x_DeviceTypeSamples :
          ads = [ADS1x1x_Init(Result.FAILED_UNKNOWN) EXCEPT
                    !.device_type = device_type, !.state = "IDLE"]
    /\ wire = TRUE
    /\ call = Returned("none", "void", NoEvents)

\* request() of any of the eight channels
Request_request == ADS1x1x_requestCall(ChannelConfigSet, ConfigWordSamples)

NextRequest ==
    \/ Request_request
    \/ ADS1x1x_update
    \/ ADS1x1x_read

SpecRequest == InitRequest /\ [][NextRequest]_vars

\* The 16-bit word of the last event of a call's trace
WordWritten(bus) == bus[Len(bus)].data[1] * 256 + bus[Len(bus)].data[2]

\* The multiplexer codes of the eight channels
MuxTable ==
    (ChannelConfig.AIN0_AIN1 :> 0) @@ (ChannelConfig.AIN0_AIN3 :> 1) @@
    (ChannelConfig.AIN1_AIN3 :> 2) @@ (ChannelConfig.AIN2_AIN3 :> 3) @@
    (ChannelConfig.AIN0_GND :> 4) @@ (ChannelConfig.AIN1_GND :> 5) @@
    (ChannelConfig.AIN2_GND :> 6) @@ (ChannelConfig.AIN3_GND :> 7)

\* C31: request(channel) from IDLE with a working bus writes to the
\* configuration register a word whose bit 15 is 1 and whose bits 14..12 are
\* the code of the channel (0..3 for AIN0-AIN1, AIN0-AIN3, AIN1-AIN3,
\* AIN2-AIN3, 4..7 for AIN0..AIN3 against ground, eight distinct codes),
\* records the time of the request, moves to BUSY and returns SUCCESS.
C31_RequestWord ==
    [][(/\ driver = "ADS1x1x"
        /\ Did("request")
        /\ ads.state = "IDLE"
        /\ BusOk(call'.bus)) =>
           LET last == call'.bus[Len(call'.bus)]
               word == WordWritten(call'.bus)
           IN  /\ call'.bus # NoEvents
               /\ last.op = "write"
               /\ last.reg = ADS1x1x_Register.CONFIG_REGISTER
               /\ Len(last.data) = 2
               /\ word \div 32768 = 1
               /\ (word \div 4096) % 8 = MuxTable[call'.args.channel_config]
               /\ \A c1, c2 \in ChannelConfigSet : MuxTable[c1] = MuxTable[c2] => c1 = c2
               /\ ads'.state = "BUSY"
               /\ ads'.latest_request_time \in RequestTimeSamples
               /\ call'.ret = Result.SUCCESS]_vars

\* AIN1 against ground requested over a register that read 0x0E1C: 0xDE1C
\* is written
C31_Witness ==
    /\ driver = "ADS1x1x"
    /\ call.op = "request"
    /\ call.ret = Result.SUCCESS
    /\ call.args.channel_config = ChannelConfig.AIN1_GND
    /\ call.bus[Len(call.bus)] = Ev("write", ADS1x1x_Register.CONFIG_REGISTER, <<222, 28>>)
    /\ ads.state = "BUSY"

\* ------------------------------------------------ the precision tables
\* The driver set up with any pair of precisions
InitTables ==
    /\ driver = "DPS310"
    /\ \E pressure_precision \in PrecisionSet, temperature_precision \in PrecisionSet :
          dps = [DPS310_Init EXCEPT
                    !.state = "WAIT_BEGIN",
                    !.settings = [DPS310_Settings("DEFAULT") EXCEPT
                                     !.pressure_precision = pressure_precision,
                                     !.temperature_precision = temperature_precision]]
    /\ ads = ADS1x1x_Init(Result.FAILED_UNKNOWN)
    /\ wire = FALSE
    /\ call = Returned("none", "void", NoEvents)

Tables_getMeasurementTimeFor ==
    /\ \E precision \in {dps.settings.pressure_precision, dps.settings.temperature_precision} :
          call' = WithArgs(Returned("getMeasurementTimeFor",
                                    getMeasurementTimeFor(precision), NoEvents),
                           [precision |-> precision])
    /\ UNCHANGED <<driver, dps, ads, wire>>

\* The scale factor as update() asks for it in TEMP_COMPLETE and PRES_COMPLETE
Tables_getScaleFactorFor ==
    /\ \E precision \in {dps.settings.pressure_precision, dps.settings.temperature_precision} :
          call' = WithArgs(Returned("getScaleFactorFor",
                                    getScaleFactorFor(precision), NoEvents),
                           [precision |-> precision])
    /\ UNCHANGED <<driver, dps, ads, wire>>

NextTables ==
    \/ Tables_getMeasurementTimeFor
    \/ Tables_getScaleFactorFor

SpecTables == InitTables /\ [][NextTables]_vars

\* The documented values for 1x, 2x, 4x, 8x, 16x, 32x, 64x, 128x
MeasurementTimes == <<4, 6, 9, 15, 28, 54, 105, 207>>

ScaleFactors == <<524288, 1572864, 3670016, 7864320, 253952, 516096, 1040384, 2088960>>

\* C32: for the 8 precisions 1x..128x getMeasurementTimeFor returns 4, 6, 9,
\* 15, 28, 54, 105, 207 ms and getScaleFactorFor returns 524288, 1572864,
\* 3670016, 7864320, 253952, 516096, 1040384, 2088960; the scale factor of
\* the precision of the settings is never 0.
C32_PrecisionTables ==
    /\ call.op = "getMeasurementTimeFor" =>
          /\ call.args.precision \in 0 .. 7
          /\ call.ret = MeasurementTimes[call.args.precision + 1]
    /\ call.op = "getScaleFactorFor" =>
          /\ call.args.precision \in 0 .. 7
          /\ call.ret = ScaleFactors[call.args.precision + 1]
          /\ call.ret # 0
    /\ getScaleFactorFor(dps.settings.pressure_precision) # 0
    /\ getScaleFactorFor(dps.settings.temperature_precision) # 0

\* The scale factor of 16x, where the table drops
C32_Witness ==
    /\ call.op = "getScaleFactorFor"
    /\ call.args.precision = Precision.STANDARD_16X
    /\ call.ret = 253952

\* ------------------------------------------------ the compensation
\* Most significant bytes and lower bytes of the raw data registers
CompMsbSamples == {<<0>>, <<127>>, <<128>>}

CompRawSamples == {<<1>>, <<255>>}

\* A device holding decoded coefficients after a successful request(); the
\* two precisions differ, so the two scale factors do
InitCompensation ==
    /\ driver = "DPS310"
    /\ \E pressure_precision \in PrecisionSet, image \in CoefImages :
          dps = [DPS310_Init EXCEPT
                    !.state = "TEMP_BUSY",
                    !.error = Result.SUCCESS,
                    !.coef = decodeCoefficients(ZeroCoef, image),
                    !.settings = [DPS310_Settings("DEFAULT") EXCEPT
                                     !.pressure_precision = pressure_precision,
                                     !.temperature_precision = 7 - pressure_precision]]
    /\ ads = ADS1x1x_Init(Result.FAILED_UNKNOWN)
    /\ wire = TRUE
    /\ call = Returned("none", "void", NoEvents)

Compensation_update == DPS310_updateCall(CompMsbSamples, CompRawSamples)

NextCompensation ==
    \/ Compensation_update
    \/ DPS310_read

SpecCompensation == InitCompensation /\ [][NextCompensation]_vars

\* The byte a call read from a register
ByteRead(bus, reg) ==
    LET i == CHOOSE i \in 1 .. Len(bus) : bus[i].op = "read" /\ bus[i].reg = reg
    IN  bus[i].data[1]

\* The 24-bit raw value a call read from three registers, sign-extended
RawRead(bus, reg) ==
    SignExtended(ByteRead(bus, reg) * 65536 + ByteRead(bus, reg + 1) * 256
                    + ByteRead(bus, reg + 2), 24)

RestStates == {"WAIT_SETUP", "WAIT_BEGIN"}

Closes(bus) == \E i \in 1 .. Len(bus) : bus[i].op = "Wire.end"

\* C34: between calls the bus is open exactly when the state is IDLE,
\* in-flight or AVAILABLE (closed in WAIT_SETUP and WAIT_BEGIN), and a call
\* closes the bus only when it is open.
C34_BusLifecycle ==
    [][/\ call'.pc = "caller" => (wire' <=> State' \notin RestStates)
       /\ (call.pc = "caller" /\ Closes(call'.bus)) => wire]_vars

\* ------------------------------------------------ the data rate field
DataRateSet == {DataRate[k] : k \in DOMAIN DataRate}

\* A device of either type set up with any data rate
InitDataRate ==
    /\ driver = "ADS1x1x"
    /\ dps = DPS310_Init
    /\ \E device_type \in ADS1x1x_DeviceTypeSamples, data_rate \in DataRateSet :
          ads = [ADS1x1x_Init(Result.FAILED_UNKNOWN) EXCEPT
                    !.device_type = device_type,
                    !.settings = ADS1x1x_Settings(ChannelConfig.AIN0_AIN1,
                                                  FullScaleRange.FSR_2048mV, data_rate),
                    !.state = "WAIT_BEGIN"]
    /\ wire = TRUE
    /\ call = Returned("none", "void", NoEvents)

DataRate_applyDataRate ==
    /\ call.op = "none"
    /\ \E v \in ConfigWordSamples :
          LET m == applyDataRate(Ctx(ads.error, NoEvents), ads.device_type, ads.settings,
                                 [how |-> "ok", val |-> v], "ok")
          IN  /\ ads' = [ads EXCEPT !.error = m.error]
              /\ call' = WithArgs(Returned("applyDataRate", m.res, m.bus),
                                  [config_reg |-> v])
    /\ UNCHANGED <<driver, dps, wire>>

NextDataRate == DataRate_applyDataRate

SpecDataRate == InitDataRate /\ [][NextDataRate]_vars

\* Bits 7..5 of a configuration word
DrField(word) == (word \div 32) % 8

\* The value handed to the last write of a call's trace, sent as two bytes or
\* as one
ValueWritten(bus) ==
    LET data == bus[Len(bus)].data
    IN  IF Len(data) = 2 THEN data[1] * 256 + data[2] ELSE data[1]

\* The word applyDataRate() writes for a data rate over the register content v
DataRateWord(device_type, data_rate, v) ==
    ValueWritten(applyDataRate(Ctx(Result.SUCCESS, NoEvents), device_type,
                              ADS1x1x_Settings(ChannelConfig.AIN0_AIN1,
                                               FullScaleRange.FSR_2048mV, data_rate),
                              [how |-> "ok", val |-> v], "ok").bus)

\* C35: the DR field applyDataRate() writes for a data rate the variant
\* supports differs from the field it writes for every other data rate the
\* variant supports.
C35_DataRateInjective ==
    (call.op = "applyDataRate" /\ ads.settings.data_rate \in DataRatesOf(ads.device_type)) =>
       \A other \in DataRatesOf(ads.device_type) \ {ads.settings.data_rate} :
          DrField(DataRateWord(ads.device_type, other, call.args.config_reg))
             # DrField(ValueWritten(call.bus))

\* ------------------------------------------------ delay and programmed rate
\* The data rate a device runs at for a DR field value: the codes of the
\* cases of applyDataRate(), 0b110 of the ADS111x being 475 SPS
ProgrammedRate(device_type, code) ==
    IF device_type = DeviceType.ADS101x
    THEN <<128, 250, 490, 920, 1600, 2400, 3300, 3300>>[code + 1]
    ELSE <<8, 16, 32, 64, 128, 250, 475, 860>>[code + 1]

\* C36: an update() that ends BUSY comes at least ceil(1000 / r) ms after
\* the request, r being the data rate of the DR field value that begin()
\* programmed for the variant and the configured data rate.
C36_DelayCoversProgrammedRate ==
    [][(/\ driver = "ADS1x1x"
        /\ Did("update")
        /\ ads.state = "BUSY"
        /\ ads'.state = "COMPLETE"
        /\ ads.latest_request_time[1] = 0
        /\ call'.args.millis[1] = 0
        /\ call'.args.millis[2] >= ads.latest_request_time[2]) =>
          call'.args.millis[2] - ads.latest_request_time[2]
             >= CeilPeriod(ProgrammedRate(ads.device_type,
                                          DrCode(ads.device_type, ads.settings.data_rate)))]_vars

\* ------------------------------------------------ writes of the 16-bit register
\* An event that sends a payload to a register (a read sends the register
\* address alone)
PayloadWrite(e) == e.op = "write" /\ e.data # <<>>

\* C37: ADS1x1x: every write of the configuration register by begin() (with
\* applyFullScaleRange() and applyDataRate()) or request() sends two payload
\* bytes, and the two bytes request() sends are the word made from the
\* register content just read, most significant byte first.
C37_WordWrites ==
    (driver = "ADS1x1x" /\ call.op \in {"begin", "request"}) =>
       /\ \A i \in 1 .. Len(call.bus) :
             (PayloadWrite(call.bus[i])
                 /\ call.bus[i].reg = ADS1x1x_Register.CONFIG_REGISTER) =>
                Len(call.bus[i].data) = 2
       /\ (call.op = "request" /\ call.ret = Result.SUCCESS) =>
             LET was  == call.bus[2].data[1] * 256 + call.bus[2].data[2]
                 word == ADS1x1x_startWord(was, call.args.channel_config)
             IN  call.bus[3].data = <<word \div 256, word % 256>>

\* ------------------------------------------------ the clock wrapping
\* The readings of millis() in update() when request() saw 2^32 - 4: the
\* elapsed times of ElapsedSamples later, before and after the wrap
WrapSamples ==
    {IF d < 4 THEN U32(65535, 65532 + d) ELSE U32(0, d - 4) : d \in ElapsedSamples}

Wrap_update == \E millis \in WrapSamples : ADS1x1x_updateCall(millis)

NextWrap == Timing_setup \/ ADS1x1x_begin \/ ADS1x1x_request \/ Wrap_update

SpecWrap == InitTiming /\ [][NextWrap]_vars

\* C38: ADS1x1x, request() at a clock value t0 in the last 2^16 ms before
\* the counter wraps and update() in BUSY at a clock value t in the first
\* 2^16 ms after it: the elapsed time is t + (2^32 - t0), and the update
\* leaves BUSY when that is below the conversion delay and moves to COMPLETE
\* when it has reached it.
C38_ClockWraparound ==
    [][(/\ driver = "ADS1x1x"
        /\ Did("update")
        /\ ads.state = "BUSY"
        /\ ads.latest_request_time[1] = 65535
        /\ call'.args.millis[1] = 0) =>
          LET elapsed == call'.args.millis[2] + (65536 - ads.latest_request_time[2])
          IN  /\ ads'.state = IF elapsed < CeilPeriod(ads.settings.data_rate)
                              THEN "BUSY" ELSE "COMPLETE"
              /\ call'.bus = NoEvents]_vars

\* A conversion at 8 SPS requested 4 ms before the wrap is still BUSY 120 ms
\* after it, 124 ms after the request
C38_Witness ==
    /\ driver = "ADS1x1x"
    /\ call.op = "update"
    /\ ads.state = "BUSY"
    /\ ads.settings.data_rate = DataRate.DR_0008SPS
    /\ ads.latest_request_time = U32(65535, 65532)
    /\ call.args = [millis |-> U32(0, 120)]

\* ------------------------------------------------ read-modify-write
OperationModeSet == {OperationMode[k] : k \in DOMAIN OperationMode}

\* Either driver initialized by begin()
InitFields ==
    /\ \/ /\ driver = "ADS1x1x"
          /\ dps = DPS310_Init
          /\ \E device_type \in ADS1x1x_DeviceTypeSamples :
                ads = [ADS1x1x_Init(Result.FAILED_UNKNOWN) EXCEPT
                          !.device_type = device_type, !.state = "IDLE"]
       \/ /\ driver = "DPS310"
          /\ dps = [DPS310_Init EXCEPT !.state = "IDLE"]
          /\ ads = ADS1x1x_Init(Result.FAILED_UNKNOWN)
    /\ wire = TRUE
    /\ call = Returned("none", "void", NoEvents)

\* applyOperationMode() of any mode over any content of MEAS_CFG
Fields_applyOperationMode ==
    /\ driver = "DPS310"
    /\ \E mode \in OperationModeSet, meas_cfg \in ByteSamples :
          LET m == applyOperationMode(Ctx(dps.error, NoEvents), mode,
                                      [how |-> "ok", val |-> <<meas_cfg>>], "ok")
          IN  /\ dps' = [dps EXCEPT !.error = m.error]
              /\ call' = WithArgs(Returned("applyOperationMode", m.res, m.bus),
                                  [mode |-> mode])
    /\ UNCHANGED <<driver, ads, wire>>

NextFields ==
    \/ Fields_applyOperationMode
    \/ Request_request
    \/ ADS1x1x_update
    \/ ADS1x1x_read

SpecFields == InitFields /\ [][NextFields]_vars

\* C39: the word request() writes has bits 11..0 (PGA, MODE, DR and the
\* comparator bits) as they were read, and the byte applyOperationMode()
\* writes to MEAS_CFG has bits 7..3 as they were read and the mode in bits
\* 2..0, for every content read and every channel and mode.
C39_NeighbouringFields ==
    /\ (driver = "ADS1x1x" /\ call.op = "request" /\ call.ret = Result.SUCCESS) =>
          LET was == call.bus[2].data[1] * 256 + call.bus[2].data[2]
              now == ValueWritten(call.bus)
          IN  /\ call.bus[2].op = "read"
              /\ call.bus[3] = Ev("write", ADS1x1x_Register.CONFIG_REGISTER,
                                  <<now \div 256, now % 256>>)
              /\ now % 4096 = was % 4096
    /\ call.op = "applyOperationMode" =>
          LET was == call.bus[2].data[1]
              now == call.bus[3].data[1]
          IN  /\ call.bus[2] = Ev("read", DPS310_Register.MEAS_CFG, <<was>>)
              /\ call.bus[3] = Ev("write", DPS310_Register.MEAS_CFG, <<now>>)
              /\ now \div 8 = was \div 8
              /\ now % 8 = call.args.mode

\* Continuous pressure (0b101) applied over MEAS_CFG = 0xFF writes 0xFD
C39_Witness ==
    /\ call.op = "applyOperationMode"
    /\ call.args.mode = OperationMode.CONTINUOUS_PRESSURE
    /\ call.bus[2].data = <<255>>
    /\ call.bus[3].data = <<253>>

\* ------------------------------------------------ the width of the voltage
\* C40: for every content of the conversion register, both variants and the
\* six full-scale ranges, raw * FSR_mV is below 2^31, the quotient by 0x7FF
\* or 0x7FFF is below 2^16, and both the voltage update() stores and the one
\* read() returns are that quotient.
C40_VoltageFits ==
    (driver = "ADS1x1x" /\ (AfterConversion \/ (call.op = "read" /\ call.ret = Result.SUCCESS))) =>
       LET product  == ads.values.raw * ads.settings.full_scale_range
           quotient == product \div (IF ads.device_type = DeviceType.ADS101x
                                     THEN 2047 ELSE 32767)
       IN  /\ ads.values.raw \in 0 .. 65535
           /\ product <= 2147483647
           /\ quotient <= 65535
           /\ ads.values.voltage = quotient
           /\ call.op = "read" => call.out.voltage = quotient

\* The largest product: the 16-bit variant at 6144 mV with the register at
\* 0xFFFF reads 12288
C40_Witness ==
    /\ driver = "ADS1x1x"
    /\ call.op = "read"
    /\ call.ret = Result.SUCCESS
    /\ ads.device_type = DeviceType.ADS111x
    /\ ads.settings.full_scale_range = FullScaleRange.FSR_6144mV
    /\ ads.values.raw = 65535
    /\ call.out.voltage = 12288

====
